---- MODULE Spec2Model ----
(***************************************************************************)
(* State-machine model of the rule engine (RuleEngine.ts) and the exchange *)
(* logger (Logger.ts) of the Reflow request manager.                        *)
(*                                                                         *)
(* Strings the code inspects character by character (header names, URLs,   *)
(* patterns, header values) are sequences of one-character strings.        *)
(* An optional field  f?: T  is the empty sequence when undefined and the  *)
(* one-element sequence <<v>> when it holds v.                             *)
(***************************************************************************)
EXTENDS Integers, Sequences, FiniteSets, TLC

VARIABLES
    rule,          \* engine: the Rule object handed to the engine (its RegExp keeps lastIndex)
    request,       \* engine: the RequestInfo handed to the engine
    modified,      \* engine: <<>> or <<outcome>> of the last apply* call
    evals,         \* engine: results of the evaluateRule calls made so far on (rule, request)
    ecall,         \* engine: name of the last engine method called
    logs,          \* Logger.logs
    logIdCounter,  \* Logger.logIdCounter
    now,           \* wall clock (Date.now(), new Date())
    ret,           \* value returned by the last getLogs call
    last,          \* record of the last Logger call: method, arguments, state before it
    rules,         \* engine: the Rule[] handed to sortByPriority / convertToDeclarativeRules
    produced,      \* engine: <<>> or <<[before, value]>>, the array before the call and the array returned
    store,         \* chrome.storage.local: under each key <<>> (nothing stored) or <<value>>
    defaults,      \* the DEFAULT_CONFIG object of the storage module
    sret,          \* record of the last StorageManager call: method, arguments, outcome
    activeRules,   \* worker: activeRules
    currentConfig, \* worker: currentConfig, [alias, own]: the DEFAULT_CONFIG object itself, or an object of its own
    dynamicRules,  \* chrome.declarativeNetRequest: the dynamic rules installed
    listeners,     \* chrome.webRequest: how many times the two listeners have been added
    tasks,         \* worker: the message handlers in flight, each waiting at an await
    reply,         \* worker: record of the last handler that has returned
    created,       \* worker: how many rule ids createRule has generated
    sent,          \* worker: how many messages have come
    logPersistTimer \* worker: whether the timer of persistLogsDebounced is set

engineVars == <<rule, request, modified, evals, ecall>>
loggerVars == <<logs, logIdCounter, now, ret, last>>
batchVars == <<rules, produced>>
storageVars == <<store, defaults, sret>>
workerVars == <<activeRules, currentConfig, dynamicRules, listeners, tasks, reply, created, sent, logPersistTimer>>
otherVars == <<batchVars, storageVars, workerVars>>
vars == <<engineVars, loggerVars, otherVars>>

----------------------------------------------------------------------------
(* Bounds *)

MaxOps == 2      \* header operations per header-modification action
MaxEvals == 3    \* evaluateRule calls made on one (rule, request) pair
MaxLogs == 3     \* entries the logger holds at most in the model
MaxStored == 2   \* entries stored where the content of the entries is varied
MaxRules == 3    \* rules in a list handed to the engine, the store or the worker
MaxTasks == 2    \* message handlers in flight at the same time
MaxCreated == 1    \* rules created by createRule messages
MaxMessages == 3   \* messages sent to the worker

----------------------------------------------------------------------------
(* JavaScript string primitives *)

UpperChars == <<"A","B","C","D","E","F","G","H","I","J","K","L","M",
                "N","O","P","Q","R","S","T","U","V","W","X","Y","Z">>
LowerChars == <<"a","b","c","d","e","f","g","h","i","j","k","l","m",
                "n","o","p","q","r","s","t","u","v","w","x","y","z">>

UpperToLower == [c \in {UpperChars[i] : i \in 1..26} |->
                    LowerChars[CHOOSE i \in 1..26 : UpperChars[i] = c]]
toLowerChar(c) == IF c \in DOMAIN UpperToLower THEN UpperToLower[c] ELSE c

\* String.prototype.toLowerCase
toLowerCase(s) == [i \in 1..Len(s) |-> toLowerChar(s[i])]

\* String.prototype.startsWith
startsWith(s, p) == Len(s) >= Len(p) /\ SubSeq(s, 1, Len(p)) = p

\* the text a template literal `${v}` produces for an optional string
Undefined == <<"u","n","d","e","f","i","n","e","d">>
Template(v) == IF v = <<>> THEN Undefined ELSE v[1]

\* v || '' for an optional string
OrEmpty(v) == IF v = <<>> THEN <<>> ELSE v[1]

\* the headers of a Record<string,string> h after h[k] = v and after delete h[k]
SetKey(h, k, v) == [x \in DOMAIN h \cup {k} |-> IF x = k THEN v ELSE h[x]]
DeleteKey(h, k) == [x \in DOMAIN h \ {k} |-> h[x]]

\* truthiness of h[k]: the key is present and its value is not ''
Truthy(h, k) == k \in DOMAIN h /\ h[k] # <<>>

----------------------------------------------------------------------------
(* RuleEngine: header modifications *)

SECURITY_RESTRICTED_HEADERS ==
    {<<"h","o","s","t">>,
     <<"c","o","n","n","e","c","t","i","o","n">>,
     <<"c","o","n","t","e","n","t","-","l","e","n","g","t","h">>,
     <<"c","o","o","k","i","e">>,
     <<"c","o","o","k","i","e","2">>,
     <<"s","e","t","-","c","o","o","k","i","e">>,
     <<"s","e","t","-","c","o","o","k","i","e","2">>,
     <<"o","r","i","g","i","n">>,
     <<"r","e","f","e","r","e","r">>,
     <<"u","s","e","r","-","a","g","e","n","t">>,
     <<"p","r","o","x","y","-","a","u","t","h","o","r","i","z","a","t","i","o","n">>,
     <<"p","r","o","x","y","-","c","o","n","n","e","c","t","i","o","n">>,
     <<"t","e">>,
     <<"t","r","a","i","l","e","r">>,
     <<"t","r","a","n","s","f","e","r","-","e","n","c","o","d","i","n","g">>,
     <<"u","p","g","r","a","d","e">>,
     <<"v","i","a">>}

\* one entry of ModifiedRequest.modifications: the fixed text of the template
\* and the values interpolated into it
Entry(kind, name, value, msg) == [kind |-> kind, name |-> name, value |-> value, msg |-> msg]

IsRestricted(header) == toLowerCase(header) \in SECURITY_RESTRICTED_HEADERS

\* (mutant: Append overwrites the header instead of concatenating to it)
ApplyHeaderOpMut(m, op) ==
    IF IsRestricted(op.header)
    THEN [m EXCEPT !.modifications =
             Append(@, Entry("Skipped restricted header: ", op.header, <<>>, ""))]
    ELSE CASE op.operation = "set" ->
                [m EXCEPT !.headers = SetKey(@, op.header, OrEmpty(op.value)),
                          !.modifications =
                             Append(@, Entry("Set header: ", op.header, Template(op.value), ""))]
           [] op.operation = "remove" ->
                [m EXCEPT !.headers = DeleteKey(@, op.header),
                          !.modifications =
                             Append(@, Entry("Removed header: ", op.header, <<>>, ""))]
           [] op.operation = "append" ->
                [m EXCEPT !.headers =
                             SetKey(@, op.header, OrEmpty(op.value)),
                          !.modifications =
                             Append(@, Entry("Appended header: ", op.header, Template(op.value), ""))]
           [] OTHER -> m

\* the body of the for loop of applyHeaderModifications for one op
ApplyHeaderOp(m, op) ==
    IF IsRestricted(op.header)
    THEN [m EXCEPT !.modifications =
             Append(@, Entry("Skipped restricted header: ", op.header, <<>>, ""))]
    ELSE CASE op.operation = "set" ->
                [m EXCEPT !.headers = SetKey(@, op.header, OrEmpty(op.value)),
                          !.modifications =
                             Append(@, Entry("Set header: ", op.header, Template(op.value), ""))]
           [] op.operation = "remove" ->
                [m EXCEPT !.headers = DeleteKey(@, op.header),
                          !.modifications =
                             Append(@, Entry("Removed header: ", op.header, <<>>, ""))]
           [] op.operation = "append" ->
                [m EXCEPT !.headers =
                             IF Truthy(@, op.header)
                             THEN SetKey(@, op.header,
                                         @[op.header] \o <<",", " ">> \o Template(op.value))
                             ELSE SetKey(@, op.header, OrEmpty(op.value)),
                          !.modifications =
                             Append(@, Entry("Appended header: ", op.header, Template(op.value), ""))]
           [] OTHER -> m

RECURSIVE ApplyHeaderOps(_, _)
ApplyHeaderOps(m, ops) ==
    IF ops = <<>> THEN m
    ELSE ApplyHeaderOps(ApplyHeaderOp(m, Head(ops)), Tail(ops))

\* applyHeaderModifications(action, modified): operations = action.requestHeaders || []
applyHeaderModifications(action, m) ==
    ApplyHeaderOps(m, IF action.requestHeaders = <<>> THEN <<>> ELSE action.requestHeaders[1])

----------------------------------------------------------------------------
(* JavaScript regular expressions, for the syntax the model's inputs use:   *)
(* literal characters, \c escapes, '.', a '*' quantifier on the preceding   *)
(* atom, the assertions '^' and '$'; an unescaped '(' is never closed (the  *)
(* inputs hold no ')'), so a source holding one does not compile.           *)

Tok(kind, c) == [kind |-> kind, c |-> c, star |-> FALSE]

\* new RegExp(src): the compiled atoms, or a SyntaxError
RECURSIVE Compile(_, _, _)
Compile(src, i, acc) ==
    IF i > Len(src) THEN [ok |-> TRUE, toks |-> acc]
    ELSE LET c == src[i] IN
         CASE c = "\\" ->
                IF i = Len(src) THEN [ok |-> FALSE, toks |-> <<>>]
                ELSE Compile(src, i + 2, Append(acc, Tok("lit", src[i + 1])))
           [] c = "." -> Compile(src, i + 1, Append(acc, Tok("any", c)))
           [] c = "^" -> Compile(src, i + 1, Append(acc, Tok("bol", c)))
           [] c = "$" -> Compile(src, i + 1, Append(acc, Tok("eol", c)))
           [] c = "(" -> [ok |-> FALSE, toks |-> <<>>]
           [] c = "*" ->
                IF acc = <<>> \/ acc[Len(acc)].star \/ acc[Len(acc)].kind \in {"bol", "eol"}
                THEN [ok |-> FALSE, toks |-> <<>>]
                ELSE Compile(src, i + 1, [acc EXCEPT ![Len(acc)].star = TRUE])
           [] OTHER -> Compile(src, i + 1, Append(acc, Tok("lit", c)))

NewRegExp(src) == Compile(src, 1, <<>>)

\* '.' matches every character but a line terminator
LineTerminators == {"\n", "\r"}
AtomMatches(t, c) ==
    \/ t.kind = "any" /\ c \notin LineTerminators
    \/ t.kind = "lit" /\ t.c = c

\* number of consecutive characters of s from position i on that atom t matches
RECURSIVE MaxRun(_, _, _)
MaxRun(t, s, i) ==
    IF i <= Len(s) /\ AtomMatches(t, s[i]) THEN 1 + MaxRun(t, s, i + 1) ELSE 0

\* backtracking match of toks against s from position i: the position after
\* the match, 0 when there is none (a starred atom takes the longest run first)
RECURSIVE MatchEnd(_, _, _), StarTry(_, _, _, _, _)
MatchEnd(toks, s, i) ==
    IF toks = <<>> THEN i
    ELSE LET h == Head(toks)
             r == Tail(toks)
         IN  CASE h.kind = "bol" -> IF i = 1 THEN MatchEnd(r, s, i) ELSE 0
               [] h.kind = "eol" -> IF i = Len(s) + 1 THEN MatchEnd(r, s, i) ELSE 0
               [] h.star -> StarTry(h, r, s, i, MaxRun(h, s, i))
               [] OTHER -> IF i <= Len(s) /\ AtomMatches(h, s[i])
                           THEN MatchEnd(r, s, i + 1) ELSE 0

StarTry(h, r, s, i, k) ==
    LET e == MatchEnd(r, s, i + k)
    IN  IF e # 0 THEN e
        ELSE IF k = 0 THEN 0 ELSE StarTry(h, r, s, i, k - 1)

\* the leftmost position from `from` on at which toks matches, 0 when none
MatchStart(toks, s, from) ==
    LET starts == {i \in from..(Len(s) + 1) : MatchEnd(toks, s, i) # 0}
    IN  IF starts = {} THEN 0
        ELSE CHOOSE i \in starts : \A j \in starts : i <= j

\* RegExp.prototype.test on a RegExp object re = [src, global, lastIndex]
\* (lastIndex counts from 0): the result and the object afterwards
RegExpTest(re, s) ==
    LET toks == NewRegExp(re.src).toks
        from == IF re.global THEN re.lastIndex + 1 ELSE 1
        st   == IF from > Len(s) + 1 THEN 0 ELSE MatchStart(toks, s, from)
    IN  IF st = 0
        THEN [result |-> FALSE,
              re |-> IF re.global THEN [re EXCEPT !.lastIndex = 0] ELSE re]
        ELSE [result |-> TRUE,
              re |-> IF re.global
                     THEN [re EXCEPT !.lastIndex = MatchEnd(toks, s, st) - 1]
                     ELSE re]

\* s.replace(regex, sub) for a non-global regex and a sub without '$' patterns
ReplaceFirst(s, toks, sub) ==
    LET st == MatchStart(toks, s, 1)
    IN  IF st = 0 THEN s
        ELSE SubSeq(s, 1, st - 1) \o sub \o SubSeq(s, MatchEnd(toks, s, st), Len(s))

----------------------------------------------------------------------------
(* RuleEngine: evaluation *)

\* the character class [.+?^${}()|[\]\\]
WildcardSpecialChars == {".", "+", "?", "^", "$", "{", "}", "(", ")", "|", "[", "]", "\\"}

\* pattern.replace(/[.+?^${}()|[\]\\]/g, '\\$&')
RECURSIVE EscapeSpecial(_)
EscapeSpecial(p) ==
    IF p = <<>> THEN <<>>
    ELSE (IF Head(p) \in WildcardSpecialChars THEN <<"\\", Head(p)>> ELSE <<Head(p)>>)
         \o EscapeSpecial(Tail(p))

\* .replace(/\*/g, '.*')
RECURSIVE StarToDotStar(_)
StarToDotStar(p) ==
    IF p = <<>> THEN <<>>
    ELSE (IF Head(p) = "*" THEN <<".", "*">> ELSE <<Head(p)>>) \o StarToDotStar(Tail(p))

\* matchesURLPattern(pattern, url): the result and the pattern object afterwards.
\* pattern = [kind, src, global, lastIndex]; kind "string" is a wildcard string,
\* kind "regexp" a RegExp object
matchesURLPattern(pattern, url) ==
    IF pattern.kind = "regexp"
    THEN LET t == RegExpTest(pattern, url)
         IN  [result |-> t.result, pattern |-> t.re]
    ELSE LET regexPattern == StarToDotStar(EscapeSpecial(pattern.src))
             regex == NewRegExp(<<"^">> \o regexPattern \o <<"$">>)
         IN  [result |-> MatchStart(regex.toks, url, 1) # 0, pattern |-> pattern]

\* evaluateRule(rule, request): the result and the rule object afterwards
evaluateRule(r, req) ==
    IF ~r.enabled
    THEN [result |-> FALSE, rule |-> r]
    ELSE LET m == matchesURLPattern(r.urlPattern, req.url)
         IN  [result |-> m.result, rule |-> [r EXCEPT !.urlPattern = m.pattern]]

----------------------------------------------------------------------------
(* The URL parser behind  new URL(input)  with no base URL *)

AlphaChars == {UpperChars[i] : i \in 1..26} \cup {LowerChars[i] : i \in 1..26}
DigitChars == {"0", "1", "2", "3", "4", "5", "6", "7", "8", "9"}
SpecialSchemes == {<<"h","t","t","p">>, <<"h","t","t","p","s">>, <<"w","s">>,
                   <<"w","s","s">>, <<"f","t","p">>}
ForbiddenHostChars == {" ", "#", "/", ":", "<", ">", "?", "@", "[", "\\", "]", "^", "|", "%"}

\* leading and trailing spaces are stripped before parsing
RECURSIVE TrimLeft(_), TrimRight(_)
TrimLeft(s) == IF s # <<>> /\ Head(s) = " " THEN TrimLeft(Tail(s)) ELSE s
TrimRight(s) == IF s # <<>> /\ s[Len(s)] = " " THEN TrimRight(SubSeq(s, 1, Len(s) - 1)) ELSE s

\* position of the first character of s from i on that lies in set cs, Len(s)+1 if none
RECURSIVE FindFirst(_, _, _)
FindFirst(s, i, cs) ==
    IF i > Len(s) \/ s[i] \in cs THEN i ELSE FindFirst(s, i + 1, cs)

\* position of the first character of s from i on that lies outside cs, Len(s)+1 if none
RECURSIVE SkipWhile(_, _, _)
SkipWhile(s, i, cs) ==
    IF i > Len(s) \/ s[i] \notin cs THEN i ELSE SkipWhile(s, i + 1, cs)

\* TRUE iff  new URL(input)  returns (the input parses as an absolute URL)
IsValidURL(input) ==
    LET s     == TrimRight(TrimLeft(input))
        colon == FindFirst(s, 1, {":"})
    IN  /\ colon <= Len(s)
        /\ colon > 1
        /\ s[1] \in AlphaChars
        /\ \A i \in 2..(colon - 1) : s[i] \in AlphaChars \cup DigitChars \cup {"+", "-", "."}
        /\ LET scheme == toLowerCase(SubSeq(s, 1, colon - 1))
           IN  scheme \in SpecialSchemes =>
                 LET start   == SkipWhile(s, colon + 1, {"/", "\\"})
                     authEnd == FindFirst(s, start, {"/", "\\", "?", "#"})
                     auth    == SubSeq(s, start, authEnd - 1)
                     portAt  == FindFirst(auth, 1, {":"})
                     host    == SubSeq(auth, 1, portAt - 1)
                     port    == SubSeq(auth, portAt + 1, Len(auth))
                 IN  /\ host # <<>>
                     /\ \A i \in 1..Len(host) : host[i] \notin ForbiddenHostChars
                     /\ \A i \in 1..Len(port) : port[i] \in DigitChars

----------------------------------------------------------------------------
(* RuleEngine: URL redirection *)

\* how a call ends: it returns the ModifiedRequest m, or it throws an Error with
\* message msg having left the ModifiedRequest as m
Threw(msg, m) == [threw |-> TRUE, msg |-> msg, value |-> m]
Returned(m) == [threw |-> FALSE, msg |-> "", value |-> m]

\* (mutant: the url is assigned before it is validated)
RedirectTryMut(action, m, originalRequest) ==
    LET sub   == action.regexSubstitution
        useRe == sub # <<>> /\ sub[1] # <<>>
        regex == NewRegExp(action.destination)
    IN  IF useRe /\ ~regex.ok
        THEN Threw("Invalid regular expression", m)
        ELSE LET newURL == IF useRe
                           THEN ReplaceFirst(originalRequest.url, regex.toks, sub[1])
                           ELSE action.destination
             IN  IF ~IsValidURL(newURL)
                 THEN Threw("Invalid URL", [m EXCEPT !.url = newURL])
                 ELSE Returned([m EXCEPT !.url = newURL,
                                         !.modifications =
                                            Append(@, Entry("Redirected to: ", <<>>, newURL, ""))])

\* the try block of applyURLRedirection: where it completes it has set the url
\* and pushed the trace entry; where it throws nothing has been changed
RedirectTry(action, m, originalRequest) ==
    LET sub   == action.regexSubstitution
        useRe == sub # <<>> /\ sub[1] # <<>>      \* if (action.regexSubstitution)
        regex == NewRegExp(action.destination)
    IN  IF useRe /\ ~regex.ok
        THEN Threw("Invalid regular expression", m)
        ELSE LET newURL == IF useRe
                           THEN ReplaceFirst(originalRequest.url, regex.toks, sub[1])
                           ELSE action.destination
             IN  IF ~IsValidURL(newURL)
                 THEN Threw("Invalid URL", m)
                 ELSE Returned([m EXCEPT !.url = newURL,
                                         !.modifications =
                                            Append(@, Entry("Redirected to: ", <<>>, newURL, ""))])

\* applyURLRedirection(action, modified, originalRequest): the try block and its catch
applyURLRedirection(action, m, originalRequest) ==
    LET t == RedirectTry(action, m, originalRequest)
    IN  IF t.threw
        THEN Returned([t.value EXCEPT !.modifications =
                         Append(@, Entry("Error: Invalid URL redirection - ", <<>>, <<>>, t.msg))])
        ELSE t

----------------------------------------------------------------------------
(* Numbers and bytes *)

DigitSeq == <<"0", "1", "2", "3", "4", "5", "6", "7", "8", "9">>
DigitVal(c) == (CHOOSE i \in 1..10 : DigitSeq[i] = c) - 1

\* String(n) for a natural number
RECURSIVE NumToString(_)
NumToString(n) == IF n < 10 THEN <<DigitSeq[n + 1]>> ELSE NumToString(n \div 10) \o <<DigitSeq[(n % 10) + 1]>>

\* parseInt(digits) for a non-empty digit string
RECURSIVE ParseInt(_)
ParseInt(d) == IF Len(d) = 1 THEN DigitVal(d[1])
               ELSE 10 * ParseInt(SubSeq(d, 1, Len(d) - 1)) + DigitVal(d[Len(d)])

\* the element "U+00E9" stands for the one code point e-acute, which UTF-8
\* encodes in two bytes; every other character of the model is ASCII
TwoByteChars == {"U+00E9"}

\* new TextEncoder().encode(s).length
RECURSIVE ByteLength(_)
ByteLength(s) ==
    IF s = <<>> THEN 0
    ELSE (IF Head(s) \in TwoByteChars THEN 2 ELSE 1) + ByteLength(Tail(s))

----------------------------------------------------------------------------
(* JSON.  A value is a record tagged t: "num" with the number n, "str" with *)
(* the characters s, "null", "undef" (JavaScript undefined), "arr" with the *)
(* elements es, "obj" with the members ms, <<key, value>> pairs in          *)
(* insertion order.                                                         *)

JNum(n) == [t |-> "num", n |-> n]
JStr(c) == [t |-> "str", s |-> c]
JNull == [t |-> "null"]
JUndef == [t |-> "undef"]
JArr(es) == [t |-> "arr", es |-> es]
JObj(ms) == [t |-> "obj", ms |-> ms]

JFail == [ok |-> FALSE, v |-> JUndef, next |-> 0]

HasMember(ms, k) == \E i \in 1..Len(ms) : ms[i][1] = k
MemberIndex(ms, k) == CHOOSE i \in 1..Len(ms) : ms[i][1] = k

\* obj[k] = x on the member list of an object
PutMember(ms, k, x) ==
    IF HasMember(ms, k) THEN [ms EXCEPT ![MemberIndex(ms, k)] = <<k, x>>]
    ELSE Append(ms, <<k, x>>)

\* JSON.parse, by recursive descent: value, array elements, object members
RECURSIVE ParseValue(_, _), ParseElements(_, _, _), ParseMembers(_, _, _)
ParseValue(s, i0) ==
    LET i == SkipWhile(s, i0, {" "})
    IN  IF i > Len(s) THEN JFail
        ELSE CASE s[i] = "{" ->
                    LET j == SkipWhile(s, i + 1, {" "})
                    IN  IF j <= Len(s) /\ s[j] = "}"
                        THEN [ok |-> TRUE, v |-> JObj(<<>>), next |-> j + 1]
                        ELSE ParseMembers(s, i + 1, <<>>)
               [] s[i] = "[" ->
                    LET j == SkipWhile(s, i + 1, {" "})
                    IN  IF j <= Len(s) /\ s[j] = "]"
                        THEN [ok |-> TRUE, v |-> JArr(<<>>), next |-> j + 1]
                        ELSE ParseElements(s, i + 1, <<>>)
               [] s[i] = "\"" ->
                    LET j == FindFirst(s, i + 1, {"\""})
                    IN  IF j > Len(s) THEN JFail
                        ELSE [ok |-> TRUE, v |-> JStr(SubSeq(s, i + 1, j - 1)), next |-> j + 1]
               [] s[i] \in DigitChars ->
                    LET j == SkipWhile(s, i, DigitChars)
                    IN  IF s[i] = "0" /\ j > i + 1 THEN JFail
                        ELSE [ok |-> TRUE, v |-> JNum(ParseInt(SubSeq(s, i, j - 1))), next |-> j]
               [] s[i] = "n" ->
                    IF SubSeq(s, i, i + 3) = <<"n", "u", "l", "l">>
                    THEN [ok |-> TRUE, v |-> JNull, next |-> i + 4]
                    ELSE JFail
               [] OTHER -> JFail

ParseElements(s, i, acc) ==
    LET e == ParseValue(s, i)
    IN  IF ~e.ok THEN JFail
        ELSE LET j == SkipWhile(s, e.next, {" "})
             IN  IF j > Len(s) THEN JFail
                 ELSE IF s[j] = "," THEN ParseElements(s, j + 1, Append(acc, e.v))
                 ELSE IF s[j] = "]"
                      THEN [ok |-> TRUE, v |-> JArr(Append(acc, e.v)), next |-> j + 1]
                 ELSE JFail

ParseMembers(s, i, acc) ==
    LET k == ParseValue(s, i)
    IN  IF ~k.ok \/ k.v.t # "str" THEN JFail
        ELSE LET c == SkipWhile(s, k.next, {" "})
             IN  IF c > Len(s) \/ s[c] # ":" THEN JFail
                 ELSE LET e == ParseValue(s, c + 1)
                      IN  IF ~e.ok THEN JFail
                          ELSE LET j == SkipWhile(s, e.next, {" "})
                                   ms == PutMember(acc, k.v.s, e.v)
                               IN  IF j > Len(s) THEN JFail
                                   ELSE IF s[j] = "," THEN ParseMembers(s, j + 1, ms)
                                   ELSE IF s[j] = "}"
                                        THEN [ok |-> TRUE, v |-> JObj(ms), next |-> j + 1]
                                   ELSE JFail

\* JSON.parse(text): the value, or a SyntaxError
JSONParse(text) ==
    LET r == ParseValue(text, 1)
    IN  IF r.ok /\ SkipWhile(text, r.next, {" "}) > Len(text)
        THEN [ok |-> TRUE, v |-> r.v]
        ELSE [ok |-> FALSE, v |-> JUndef]

\* JSON.stringify(value): undefined is written null inside an array and its
\* member is left out of an object
RECURSIVE JSONStringify(_), StringifyElements(_), StringifyMembers(_, _)
JSONStringify(x) ==
    CASE x.t = "num" -> NumToString(x.n)
      [] x.t = "str" -> <<"\"">> \o x.s \o <<"\"">>
      [] x.t = "arr" -> <<"[">> \o StringifyElements(x.es) \o <<"]">>
      [] x.t = "obj" -> <<"{">> \o StringifyMembers(x.ms, TRUE) \o <<"}">>
      [] OTHER -> <<"n", "u", "l", "l">>

StringifyElements(es) ==
    IF es = <<>> THEN <<>>
    ELSE JSONStringify(Head(es))
         \o (IF Len(es) > 1 THEN <<",">> \o StringifyElements(Tail(es)) ELSE <<>>)

StringifyMembers(ms, first) ==
    IF ms = <<>> THEN <<>>
    ELSE IF Head(ms)[2].t = "undef" THEN StringifyMembers(Tail(ms), first)
    ELSE (IF first THEN <<>> ELSE <<",">>)
         \o <<"\"">> \o Head(ms)[1] \o <<"\"", ":">> \o JSONStringify(Head(ms)[2])
         \o StringifyMembers(Tail(ms), FALSE)

----------------------------------------------------------------------------
(* RuleEngine: JSON path writes.  Of the built-in properties the model has  *)
(* constructor; its inputs name no other (length, __proto__, ...).          *)

\* path.split('.')
RECURSIVE Split(_, _)
Split(str, sep) ==
    LET i == FindFirst(str, 1, {sep})
    IN  IF i > Len(str) THEN <<str>>
        ELSE <<SubSeq(str, 1, i - 1)>> \o Split(SubSeq(str, i + 1, Len(str)), sep)

\* position of the last '[' of part, 0 if none
RECURSIVE LastBracket(_, _)
LastBracket(part, i) ==
    IF i = 0 THEN 0 ELSE IF part[i] = "[" THEN i ELSE LastBracket(part, i - 1)

\* part.match(/^(.+)\[(\d+)\]$/)
ArrayMatch(part) ==
    LET n == Len(part)
        j == LastBracket(part, n)
    IN  IF /\ n >= 4
           /\ part[n] = "]"
           /\ j > 1
           /\ j < n - 1
           /\ \A i \in (j + 1)..(n - 1) : part[i] \in DigitChars
        THEN [ok |-> TRUE, key |-> SubSeq(part, 1, j - 1), index |-> SubSeq(part, j + 1, n - 1)]
        ELSE [ok |-> FALSE, key |-> <<>>, index |-> <<>>]

\* the property keys one path part reads: key and parseInt(index), or the part itself
PartKeys(part) ==
    LET am == ArrayMatch(part)
    IN  IF am.ok THEN <<am.key, NumToString(ParseInt(am.index))>> ELSE <<part>>

RECURSIVE PathKeys(_)
PathKeys(parts) == IF parts = <<>> THEN <<>> ELSE PartKeys(Head(parts)) \o PathKeys(Tail(parts))

\* a canonical array index
IsIndexKey(k) ==
    /\ k # <<>>
    /\ \A i \in 1..Len(k) : k[i] \in DigitChars
    /\ (k[1] = "0" => Len(k) = 1)

\* the keys every value inherits from its prototype: of these the model has
\* constructor, whose value is a function, [t |-> "fn"], no part of any body
InheritedKeys == {<<"c","o","n","s","t","r","u","c","t","o","r">>}
JFn == [t |-> "fn"]

\* x[k] for x neither null nor undefined: the own property, else the inherited one
GetProp(x, k) ==
    LET inherited == IF k \in InheritedKeys THEN JFn ELSE JUndef
    IN  CASE x.t = "obj" -> IF HasMember(x.ms, k) THEN x.ms[MemberIndex(x.ms, k)][2] ELSE inherited
          [] x.t = "arr" -> IF IsIndexKey(k) /\ ParseInt(k) < Len(x.es)
                            THEN x.es[ParseInt(k) + 1] ELSE inherited
          [] x.t = "str" -> IF IsIndexKey(k) /\ ParseInt(k) < Len(x.s)
                            THEN JStr(<<x.s[ParseInt(k) + 1]>>) ELSE inherited
          [] OTHER -> inherited

\* x[k] = val in strict mode: the object afterwards, or a TypeError
SetProp(x, k, val) ==
    CASE x.t = "obj" -> [ok |-> TRUE, v |-> JObj(PutMember(x.ms, k, val))]
      [] x.t = "arr" ->
           IF IsIndexKey(k)
           THEN LET idx == ParseInt(k)
                IN  [ok |-> TRUE,
                     v |-> JArr([i \in 1..(IF idx < Len(x.es) THEN Len(x.es) ELSE idx + 1) |->
                                   IF i = idx + 1 THEN val
                                   ELSE IF i <= Len(x.es) THEN x.es[i] ELSE JUndef])]
           ELSE [ok |-> TRUE, v |-> x]
      [] x.t = "fn" -> [ok |-> TRUE, v |-> x]
      [] OTHER -> [ok |-> FALSE, v |-> x]

\* the traversal and final write of applyJSONPath over the keys of the path:
\* the object afterwards, or a TypeError
RECURSIVE WritePath(_, _, _)
WritePath(x, keys, val) ==
    IF x.t \in {"null", "undef"} THEN [ok |-> FALSE, v |-> x]
    ELSE IF Len(keys) = 1 THEN SetProp(x, keys[1], val)
    ELSE LET child == GetProp(x, keys[1])
             r == WritePath(child, Tail(keys), val)
         IN  IF ~r.ok THEN [ok |-> FALSE, v |-> x]
             ELSE IF child.t # "fn" /\ x.t \in {"obj", "arr"} THEN SetProp(x, keys[1], r.v)
             ELSE [ok |-> TRUE, v |-> x]

\* applyJSONPath(obj, path, value)
applyJSONPath(obj, path, value) == WritePath(obj, PathKeys(Split(path, ".")), value)

----------------------------------------------------------------------------
(* RuleEngine: body modification.  A body or replacement content is         *)
(* [t |-> "string", v |-> text] or [t |-> "buffer", v |-> text], a buffer    *)
(* being given by the text its bytes decode to.                             *)

ContentLength == <<"C","o","n","t","e","n","t","-","L","e","n","g","t","h">>
ObjectArrayBuffer == <<"[","o","b","j","e","c","t"," ","A","r","r","a","y","B","u","f","f","e","r","]">>

modifyJSONBody(action, m) ==
    LET bodyStr == m.body[1].v
        parsed  == JSONParse(bodyStr)
        mod     == action.modification
    IN  IF ~parsed.ok THEN Threw("Unexpected token", m)
        ELSE LET r == IF mod.type = "jsonPath"
                      THEN applyJSONPath(parsed.v, mod.path, mod.value)
                      ELSE IF mod.content.t = "string"
                           THEN JSONParse(mod.content.v)
                           ELSE [ok |-> TRUE, v |-> JObj(<<>>)]
             IN  IF ~r.ok
                 THEN Threw(IF mod.type = "jsonPath" THEN "Cannot set properties"
                            ELSE "Unexpected token", m)
                 ELSE LET newBody == JSONStringify(r.v)
                      IN  Returned(
                            [m EXCEPT
                               !.modifications =
                                  Append(@, IF mod.type = "jsonPath"
                                            THEN Entry("Modified JSON path: ", <<>>, mod.path, "")
                                            ELSE Entry("Replaced entire JSON body", <<>>, <<>>, "")),
                               !.body = <<[t |-> "string", v |-> newBody]>>,
                               !.headers = SetKey(@, ContentLength,
                                                  NumToString(ByteLength(newBody)))])

modifyTextBody(action, m) ==
    IF action.modification.type = "replace"
    THEN LET content == action.modification.content
             encoded == IF content.t = "string" THEN content.v ELSE ObjectArrayBuffer
         IN  Returned([m EXCEPT
                         !.body = <<content>>,
                         !.headers = SetKey(@, ContentLength, NumToString(ByteLength(encoded))),
                         !.modifications = Append(@, Entry("Replaced text body", <<>>, <<>>, ""))])
    ELSE Returned(m)

modifyBinaryBody(action, m) ==
    IF action.modification.type = "replace"
    THEN LET content == action.modification.content
         IN  Returned([m EXCEPT
                         !.body = <<content>>,
                         !.headers = SetKey(@, ContentLength, NumToString(ByteLength(content.v))),
                         !.modifications = Append(@, Entry("Replaced binary body", <<>>, <<>>, ""))])
    ELSE Returned(m)

\* the try block of applyBodyModification
BodyTry(action, m) ==
    CASE action.contentType = "json" -> modifyJSONBody(action, m)
      [] action.contentType = "text" -> modifyTextBody(action, m)
      [] action.contentType = "binary" -> modifyBinaryBody(action, m)
      [] OTHER -> Returned(m)

\* !modified.body: no body, or the empty string
NoBody(m) == m.body = <<>> \/ (m.body[1].t = "string" /\ m.body[1].v = <<>>)

\* (mutant: the try block has no catch)
applyBodyModificationMut(action, m) ==
    IF NoBody(m)
    THEN Returned([m EXCEPT !.modifications = Append(@, Entry("No body to modify", <<>>, <<>>, ""))])
    ELSE BodyTry(action, m)

\* applyBodyModification(action, modified): the guard, the try block and its catch
applyBodyModification(action, m) ==
    IF NoBody(m)
    THEN Returned([m EXCEPT !.modifications = Append(@, Entry("No body to modify", <<>>, <<>>, ""))])
    ELSE LET t == BodyTry(action, m)
         IN  IF t.threw
             THEN Returned([t.value EXCEPT !.modifications =
                              Append(@, Entry("Error modifying body: ", <<>>, <<>>, t.msg))])
             ELSE t

----------------------------------------------------------------------------
(* RuleEngine: applyRule *)

\* applyRule(rule, request): what the call returns, or that it threw
applyRule(r, req) ==
    LET m == [url |-> req.url, method |-> req.method, headers |-> req.headers,
              body |-> req.body, modifications |-> <<>>]
    IN  CASE r.action.type = "modifyHeaders" -> Returned(applyHeaderModifications(r.action, m))
          [] r.action.type = "redirect" -> applyURLRedirection(r.action, m, req)
          [] r.action.type = "modifyBody" -> applyBodyModification(r.action, m)
          [] r.action.type = "mockResponse" ->
               Returned([m EXCEPT !.modifications =
                           Append(@, Entry("Mock response: ", <<>>,
                                           NumToString(r.action.statusCode), ""))])
          [] OTHER -> Returned(m)

----------------------------------------------------------------------------
(* Calls into the engine.  The engine keeps no state of its own: rule and   *)
(* request are the caller's objects, modified and evals record what the     *)
(* calls returned.                                                          *)

WildcardPattern(src) == [kind |-> "string", src |-> src, global |-> FALSE, lastIndex |-> 0]
RegExpPattern(src, global) == [kind |-> "regexp", src |-> src, global |-> global, lastIndex |-> 0]

MkRule(id, enabled, priority, pattern, action) ==
    [id |-> id, name |-> id, enabled |-> enabled, priority |-> priority,
     urlPattern |-> pattern, action |-> action]

MkRequest(url, method, headers, body) ==
    [url |-> url, method |-> method, headers |-> headers, body |-> body]

NoHeaders == [k \in {} |-> <<>>]

MockAction == [type |-> "mockResponse", statusCode |-> 200, headers |-> NoHeaders, body |-> <<>>]

IdleRule == MkRule("r0", TRUE, 1, WildcardPattern(<<"*">>), MockAction)
IdleRequest == MkRequest(<<"h","t","t","p",":","/","/","a">>, "GET", NoHeaders, <<>>)

\* engine.evaluateRule(rule, request)
EvaluateRuleCall ==
    /\ Len(evals) < MaxEvals
    /\ LET e == evaluateRule(rule, request)
       IN  /\ evals' = Append(evals, e.result)
           /\ rule' = e.rule
    /\ ecall' = "evaluateRule"
    /\ UNCHANGED <<request, modified, loggerVars, otherVars>>

\* engine.applyRule(rule, request)
ApplyRuleCall ==
    /\ modified' = <<applyRule(rule, request)>>
    /\ ecall' = "applyRule"
    /\ UNCHANGED <<rule, request, evals, loggerVars, otherVars>>

\* engine.applyHeaderModifications(rule.action, {...request, headers: {...request.headers},
\* modifications: []}), the call the engine's tests make
ApplyHeaderModificationsCall ==
    /\ rule.action.type = "modifyHeaders"
    /\ modified' = <<Returned(applyHeaderModifications(rule.action,
                        [url |-> request.url, method |-> request.method,
                         headers |-> request.headers, body |-> request.body,
                         modifications |-> <<>>]))>>
    /\ ecall' = "applyHeaderModifications"
    /\ UNCHANGED <<rule, request, evals, loggerVars, otherVars>>

LoggerIdle ==
    /\ logs = <<>>
    /\ logIdCounter = 0
    /\ now = 0
    /\ ret = [threw |-> FALSE, value |-> <<>>]
    /\ last = [op |-> "none"]

\* no call on a list of rules has been made
BatchIdle ==
    /\ rules = <<>>
    /\ produced = <<>>

\* nothing is stored and no StorageManager call has been made
DEFAULT_CONFIG ==
    [globalPaused |-> FALSE, logRetentionDays |-> 7, maxLogEntries |-> 1000,
     enableHTTPS |-> FALSE, theme |-> "auto"]
EmptyStore == [rules |-> <<>>, config |-> <<>>, logs |-> <<>>, metadata |-> <<>>]
StorageIdle ==
    /\ store = EmptyStore
    /\ defaults = DEFAULT_CONFIG
    /\ sret = [op |-> "none"]

\* the worker before initialize()
WorkerIdle ==
    /\ activeRules = <<>>
    /\ currentConfig = [alias |-> TRUE, own |-> DEFAULT_CONFIG]
    /\ dynamicRules = {}
    /\ listeners = 0
    /\ tasks = <<>>
    /\ reply = [type |-> "none"]
    /\ created = 0
    /\ sent = 0
    /\ logPersistTimer = FALSE

OthersIdle == BatchIdle /\ StorageIdle /\ WorkerIdle

EngineStart(ruleSet, requests) ==
    /\ rule \in ruleSet
    /\ request \in requests
    /\ modified = <<>>
    /\ evals = <<>>
    /\ ecall = "none"
    /\ LoggerIdle
    /\ OthersIdle

----------------------------------------------------------------------------
(* Header modifications: every sequence of at most MaxOps operations over   *)
(* the names X, x (unrestricted, distinct keys) and Te (restricted once     *)
(* lower-cased), with the value undefined, '' or 'a'.                       *)

HdrNames == {<<"X">>, <<"x">>, <<"T","e">>}
HdrValues == {<<>>, <<<<>>>>, <<<<"a">>>>}
HdrOps ==
    [operation : {"set", "append"}, header : HdrNames, value : HdrValues]
    \cup [operation : {"remove"}, header : HdrNames, value : {<<>>}]
HdrOpSeqs == UNION {[1..n -> HdrOps] : n \in 0..MaxOps}
HdrMaps == {NoHeaders,
            (<<"X">> :> <<>>),
            (<<"X">> :> <<"a">>) @@ (<<"T","e">> :> <<"b">>)}
HdrRules ==
    {MkRule("r1", TRUE, 1, WildcardPattern(<<"*">>),
            [type |-> "modifyHeaders", requestHeaders |-> <<ops>>, responseHeaders |-> <<>>])
       : ops \in HdrOpSeqs}
HdrRequests == {MkRequest(<<"h","t","t","p",":","/","/","a">>, "GET", h, <<>>) : h \in HdrMaps}

InitHeaders == EngineStart(HdrRules, HdrRequests)
NextHeaders == ApplyRuleCall \/ ApplyHeaderModificationsCall
SpecHeaders == InitHeaders /\ [][NextHeaders]_vars

\* the operations of the rule under application and the outcome of the call
CurOps == IF rule.action.requestHeaders = <<>> THEN <<>> ELSE rule.action.requestHeaders[1]
Outcome == modified[1].value
Trace == Outcome.modifications
HeaderCallDone ==
    /\ ecall \in {"applyRule", "applyHeaderModifications"}
    /\ rule.action.type = "modifyHeaders"

RestrictedName(name) == toLowerCase(name) \in SECURITY_RESTRICTED_HEADERS

PresentInMap(h, k) == k \in DOMAIN h
PresentNonEmpty(h, k) == k \in DOMAIN h /\ Len(h[k]) > 0

\* the header map after the first i operations, folding left to right the
\* operations on unrestricted names; Append concatenates to a header that is
\* present (whenPresent) or to one that is present with a non-empty value
RECURSIVE FoldOps(_, _, _, _)
FoldOps(h0, ops, i, whenPresent) ==
    IF i = 0 THEN h0
    ELSE LET h  == FoldOps(h0, ops, i - 1, whenPresent)
             op == ops[i]
             k  == op.header
             concat == IF whenPresent THEN PresentInMap(h, k) ELSE PresentNonEmpty(h, k)
         IN  IF RestrictedName(k) THEN h
             ELSE IF op.operation = "set" THEN (k :> OrEmpty(op.value)) @@ h
             ELSE IF op.operation = "remove" THEN [x \in DOMAIN h \ {k} |-> h[x]]
             ELSE IF concat THEN (k :> (h[k] \o <<",", " ">> \o Template(op.value))) @@ h
             ELSE (k :> OrEmpty(op.value)) @@ h

\* each operation leaves one trace entry, at its own position; the one of an
\* operation on a restricted name is 'Skipped restricted header: <name>', and
\* no other entry is
SkippedExactlyOnce ==
    /\ Len(Trace) = Len(CurOps)
    /\ \A i \in 1..Len(CurOps) :
          (Trace[i].kind = "Skipped restricted header: ") = RestrictedName(CurOps[i].header)
    /\ \A i \in 1..Len(CurOps) :
          RestrictedName(CurOps[i].header) => Trace[i].name = CurOps[i].header

----------------------------------------------------------------------------
(* Logger.  A Date is its time value in milliseconds.  A LogEntry is        *)
(* [id, timestamp, url, method, statusCode, requestHeaders,                 *)
(* responseHeaders, appliedRules, modifications], statusCode and            *)
(* responseHeaders being optional.                                          *)

SENSITIVE_HEADERS ==
    <<<<"a","u","t","h","o","r","i","z","a","t","i","o","n">>,
      <<"c","o","o","k","i","e">>,
      <<"s","e","t","-","c","o","o","k","i","e">>,
      <<"p","r","o","x","y","-","a","u","t","h","o","r","i","z","a","t","i","o","n">>,
      <<"w","w","w","-","a","u","t","h","e","n","t","i","c","a","t","e">>,
      <<"x","-","a","p","i","-","k","e","y">>,
      <<"a","p","i","-","k","e","y">>>>

HttpsPrefix == <<"h","t","t","p","s",":","/","/">>
Filtered == <<"[","F","I","L","T","E","R","E","D","]">>

WindowMs == 5000
DayMs == 86400000

\* (mutant: the key is looked up as written, not lower-cased)
IsSensitiveMut(key) == \E i \in 1..Len(SENSITIVE_HEADERS) : SENSITIVE_HEADERS[i] = key

\* SENSITIVE_HEADERS.includes(lowerKey)
IsSensitive(key) ==
    LET lowerKey == toLowerCase(key)
    IN  \E i \in 1..Len(SENSITIVE_HEADERS) : SENSITIVE_HEADERS[i] = lowerKey

\* filterSensitiveData(url, headers)
filterSensitiveData(url, headers) ==
    IF ~startsWith(url, HttpsPrefix) THEN headers
    ELSE [key \in DOMAIN headers |-> IF IsSensitive(key) THEN Filtered ELSE headers[key]]

\* the strings extractModifications pushes for one rule
RuleModifications(r) ==
    CASE r.action.type = "modifyHeaders" ->
           (IF r.action.requestHeaders # <<>>
            THEN <<[kind |-> "Modified request headers", name |-> r.name]>> ELSE <<>>)
           \o (IF r.action.responseHeaders # <<>>
               THEN <<[kind |-> "Modified response headers", name |-> r.name]>> ELSE <<>>)
      [] r.action.type = "redirect" ->
           <<[kind |-> "Redirected to", destination |-> r.action.destination, name |-> r.name]>>
      [] r.action.type = "modifyBody" ->
           <<[kind |-> "Modified body", target |-> r.action.target, name |-> r.name]>>
      [] r.action.type = "mockResponse" ->
           <<[kind |-> "Mocked response with status", statusCode |-> r.action.statusCode,
              name |-> r.name]>>
      [] OTHER -> <<>>

\* extractModifications(appliedRules)
RECURSIVE extractModifications(_)
extractModifications(appliedRules) ==
    IF appliedRules = <<>> THEN <<>>
    ELSE RuleModifications(Head(appliedRules)) \o extractModifications(Tail(appliedRules))

\* appliedRules.map(r => r.id)
RuleIds(appliedRules) == [i \in 1..Len(appliedRules) |-> appliedRules[i].id]

\* generateLogId(): `log-${Date.now()}-${this.logIdCounter++}`
generateLogId(time, counter) == [time |-> time, n |-> counter]

\* array.includes(x)
Includes(seq, x) == \E i \in 1..Len(seq) : seq[i] = x

\* array.filter(x => !other.includes(x))
RECURSIVE NotIncludedIn(_, _)
NotIncludedIn(seq, other) ==
    IF seq = <<>> THEN <<>>
    ELSE (IF Includes(other, Head(seq)) THEN <<>> ELSE <<Head(seq)>>)
         \o NotIncludedIn(Tail(seq), other)

\* array.filter(keep), keep being the set of the positions kept
RECURSIVE KeepPositions(_, _, _)
KeepPositions(seq, keep, i) ==
    IF i > Len(seq) THEN <<>>
    ELSE (IF i \in keep THEN <<seq[i]>> ELSE <<>>) \o KeepPositions(seq, keep, i + 1)

Abs(x) == IF x < 0 THEN -x ELSE x

\* the entry logRequest builds
RequestEntry(req, appliedRules, time, counter) ==
    [id |-> generateLogId(time, counter),
     timestamp |-> req.timestamp,
     url |-> req.url,
     method |-> req.method,
     statusCode |-> <<>>,
     requestHeaders |-> filterSensitiveData(req.url, req.headers),
     responseHeaders |-> <<>>,
     appliedRules |-> RuleIds(appliedRules),
     modifications |-> extractModifications(appliedRules)]

\* logRequest(request, appliedRules): the fields of the logger afterwards
logRequest(ls, counter, time, req, appliedRules) ==
    [logs |-> Append(ls, RequestEntry(req, appliedRules, time, counter)),
     logIdCounter |-> counter + 1]

\* the predicate of this.logs.find in logResponse; !log.statusCode holds for
\* an entry without statusCode and for one whose statusCode is 0
MatchesPending(log, req) ==
    /\ log.url = req.url
    /\ log.method = req.method
    /\ (log.statusCode = <<>> \/ log.statusCode[1] = 0)
    /\ Abs(log.timestamp - req.timestamp) < WindowMs

\* logResponse(response, request, appliedRules): the fields of the logger afterwards
logResponse(ls, counter, time, response, req, appliedRules) ==
    LET found == {i \in 1..Len(ls) : MatchesPending(ls[i], req)}
    IN  IF found # {}
        THEN LET i == CHOOSE j \in found : \A k \in found : j <= k
                 existingLog == ls[i]
                 newRuleIds == NotIncludedIn(RuleIds(appliedRules), existingLog.appliedRules)
                 newModifications == NotIncludedIn(extractModifications(appliedRules),
                                                   existingLog.modifications)
             IN  [logs |-> [ls EXCEPT ![i] =
                              [existingLog EXCEPT
                                 !.statusCode = <<response.statusCode>>,
                                 !.responseHeaders =
                                    <<filterSensitiveData(req.url, response.headers)>>,
                                 !.appliedRules = @ \o newRuleIds,
                                 !.modifications = @ \o newModifications]],
                  logIdCounter |-> counter]
        ELSE [logs |-> Append(ls,
                 [RequestEntry(req, appliedRules, time, counter) EXCEPT
                    !.statusCode = <<response.statusCode>>,
                    !.responseHeaders = <<filterSensitiveData(req.url, response.headers)>>]),
              logIdCounter |-> counter + 1]

\* array.sort((a, b) => a.timestamp.getTime() - b.timestamp.getTime()): a stable
\* sort, here by insertion from the left
RECURSIVE InsertByTimestamp(_, _)
InsertByTimestamp(sorted, e) ==
    IF sorted = <<>> THEN <<e>>
    ELSE IF sorted[Len(sorted)].timestamp <= e.timestamp THEN Append(sorted, e)
    ELSE Append(InsertByTimestamp(SubSeq(sorted, 1, Len(sorted) - 1), e), sorted[Len(sorted)])

RECURSIVE SortByTimestamp(_)
SortByTimestamp(seq) ==
    IF seq = <<>> THEN <<>>
    ELSE InsertByTimestamp(SortByTimestamp(SubSeq(seq, 1, Len(seq) - 1)), seq[Len(seq)])

\* (mutant: the end of dateRange is exclusive)
PassesFilterMut(log, f) ==
    /\ (f.urlPattern # <<>> /\ f.urlPattern[1] # <<>>)
          => MatchStart(NewRegExp(f.urlPattern[1]).toks, log.url, 1) # 0
    /\ (f.method # <<>> /\ f.method[1] # "") => log.method = f.method[1]
    /\ f.statusCode # <<>> => log.statusCode = f.statusCode
    /\ f.hasModifications # <<>> =>
          (IF f.hasModifications[1] THEN Len(log.modifications) > 0
           ELSE Len(log.modifications) = 0)
    /\ f.dateRange # <<>> =>
          (log.timestamp >= f.dateRange[1].start /\ log.timestamp < f.dateRange[1].end)

\* the filter steps of getLogs; a LogFilter is [urlPattern, method, statusCode,
\* hasModifications, dateRange], every field optional
PassesFilter(log, f) ==
    /\ (f.urlPattern # <<>> /\ f.urlPattern[1] # <<>>)
          => MatchStart(NewRegExp(f.urlPattern[1]).toks, log.url, 1) # 0
    /\ (f.method # <<>> /\ f.method[1] # "") => log.method = f.method[1]
    /\ f.statusCode # <<>> => log.statusCode = f.statusCode
    /\ f.hasModifications # <<>> =>
          (IF f.hasModifications[1] THEN Len(log.modifications) > 0
           ELSE Len(log.modifications) = 0)
    /\ f.dateRange # <<>> =>
          (log.timestamp >= f.dateRange[1].start /\ log.timestamp <= f.dateRange[1].end)

\* (mutant: the entries are returned in stored order, without the sort)
getLogsMut(ls, filter) ==
    LET f == filter[1]
    IN  IF filter # <<>> /\ f.urlPattern # <<>> /\ f.urlPattern[1] # <<>>
           /\ ~NewRegExp(f.urlPattern[1]).ok
        THEN [logs |-> ls, threw |-> TRUE, value |-> <<>>]
        ELSE LET filteredLogs ==
                    IF filter = <<>> THEN ls
                    ELSE KeepPositions(ls, {i \in 1..Len(ls) : PassesFilter(ls[i], f)}, 1)
             IN  [logs |-> ls, threw |-> FALSE, value |-> filteredLogs]

\* getLogs(filter): the stored list afterwards and what the call returns, or
\* that it threw (new RegExp on a pattern that does not compile)
getLogs(ls, filter) ==
    LET f == filter[1]
    IN  IF filter # <<>> /\ f.urlPattern # <<>> /\ f.urlPattern[1] # <<>>
           /\ ~NewRegExp(f.urlPattern[1]).ok
        THEN [logs |-> ls, threw |-> TRUE, value |-> <<>>]
        ELSE LET filteredLogs ==
                    IF filter = <<>> THEN ls
                    ELSE KeepPositions(ls, {i \in 1..Len(ls) : PassesFilter(ls[i], f)}, 1)
             IN  [logs |-> ls, threw |-> FALSE, value |-> SortByTimestamp(filteredLogs)]

\* clearLogs(olderThan)
clearLogs(ls, olderThan) ==
    IF olderThan # <<>>
    THEN KeepPositions(ls, {i \in 1..Len(ls) : ls[i].timestamp >= olderThan[1]}, 1)
    ELSE <<>>

\* setLogs(logs)
setLogs(newLogs) == newLogs

\* array.slice(start)
Slice(seq, start) ==
    LET from == IF start < 0
                THEN (IF Len(seq) + start < 0 THEN 0 ELSE Len(seq) + start)
                ELSE (IF start > Len(seq) THEN Len(seq) ELSE start)
    IN  SubSeq(seq, from + 1, Len(seq))

\* applyRetentionPolicy(retentionDays, maxEntries) called at time `time`
applyRetentionPolicy(ls, time, retentionDays, maxEntries) ==
    LET cutoffDate == time - retentionDays * DayMs
        kept == KeepPositions(ls, {i \in 1..Len(ls) : ls[i].timestamp >= cutoffDate}, 1)
    IN  IF Len(kept) > maxEntries THEN Slice(kept, -maxEntries) ELSE kept

----------------------------------------------------------------------------
(* Calls into the logger.  last is the call made last: its name, its        *)
(* arguments and the stored list when it was made; ret is what getLogs      *)
(* returned.  The methods declared async hold no await, so each runs to     *)
(* completion within the call.                                              *)

LogRequestInfo(url, method, headers, timestamp) ==
    [url |-> url, method |-> method, headers |-> headers, timestamp |-> timestamp]

ResponseInfo(statusCode, headers) == [statusCode |-> statusCode, headers |-> headers]

LogFilter(urlPattern, method, statusCode, hasModifications, dateRange) ==
    [urlPattern |-> urlPattern, method |-> method, statusCode |-> statusCode,
     hasModifications |-> hasModifications, dateRange |-> dateRange]

NoReturn == [threw |-> FALSE, value |-> <<>>]

EngineIdle ==
    /\ rule = IdleRule
    /\ request = IdleRequest
    /\ modified = <<>>
    /\ evals = <<>>
    /\ ecall = "none"

LoggerStart(time) ==
    /\ EngineIdle
    /\ OthersIdle
    /\ logs = <<>>
    /\ logIdCounter = 0
    /\ now = time
    /\ ret = NoReturn
    /\ last = [op |-> "none"]

\* logger.logRequest(request, appliedRules)
LogRequestCall(requests, ruleLists) ==
    /\ Len(logs) < MaxLogs
    /\ logIdCounter < MaxLogs
    /\ \E req \in requests, appliedRules \in ruleLists :
          \E after \in {logRequest(logs, logIdCounter, now, req, appliedRules)} :
              /\ logs' = after.logs
              /\ logIdCounter' = after.logIdCounter
              /\ last' = [op |-> "logRequest", before |-> logs, request |-> req,
                          appliedRules |-> appliedRules]
    /\ ret' = NoReturn
    /\ UNCHANGED <<now, engineVars, otherVars>>

\* logger.logResponse(response, request, appliedRules)
LogResponseCall(responses, requests, ruleLists) ==
    /\ \E response \in responses, req \in requests, appliedRules \in ruleLists :
          \E after \in {logResponse(logs, logIdCounter, now, response, req, appliedRules)} :
              /\ Len(after.logs) <= MaxLogs
              /\ after.logIdCounter <= MaxLogs
              /\ logs' = after.logs
              /\ logIdCounter' = after.logIdCounter
              /\ last' = [op |-> "logResponse", before |-> logs, response |-> response,
                          request |-> req, appliedRules |-> appliedRules]
    /\ ret' = NoReturn
    /\ UNCHANGED <<now, engineVars, otherVars>>

\* await logger.getLogs(filter)
GetLogsCall(filters) ==
    /\ \E filter \in filters :
          \E r \in {getLogs(logs, filter)} :
              /\ logs' = r.logs
              /\ ret' = [threw |-> r.threw, value |-> r.value]
              /\ last' = [op |-> "getLogs", before |-> logs, filter |-> filter]
    /\ UNCHANGED <<logIdCounter, now, engineVars, otherVars>>

\* await logger.clearLogs(olderThan)
ClearLogsCall(dates) ==
    /\ \E olderThan \in dates :
          /\ logs' = clearLogs(logs, olderThan)
          /\ last' = [op |-> "clearLogs", before |-> logs, olderThan |-> olderThan]
    /\ ret' = NoReturn
    /\ UNCHANGED <<logIdCounter, now, engineVars, otherVars>>

\* logger.setLogs(logs)
SetLogsCall(lists) ==
    /\ \E newLogs \in lists :
          /\ logs' = setLogs(newLogs)
          /\ last' = [op |-> "setLogs", newLogs |-> newLogs]
    /\ ret' = NoReturn
    /\ UNCHANGED <<logIdCounter, now, engineVars, otherVars>>

\* await logger.applyRetentionPolicy(retentionDays, maxEntries)
ApplyRetentionPolicyCall(days, maxima) ==
    /\ \E retentionDays \in days, maxEntries \in maxima :
          /\ logs' = applyRetentionPolicy(logs, now, retentionDays, maxEntries)
          /\ last' = [op |-> "applyRetentionPolicy", before |-> logs, time |-> now,
                      retentionDays |-> retentionDays, maxEntries |-> maxEntries]
    /\ ret' = NoReturn
    /\ UNCHANGED <<logIdCounter, now, engineVars, otherVars>>

\* the lists an earlier session of the logger left in storage: one entry per
\* request, no request twice, in every order
StoredLists(requests) ==
    UNION {{[i \in 1..n |-> RequestEntry(reqs[i], <<>>, 0, i - 1)] :
               reqs \in {f \in [1..n -> requests] :
                            \A i, j \in 1..n : f[i] = f[j] => i = j}} :
           n \in 0..MaxLogs}

----------------------------------------------------------------------------
(* The logger under every call, with entries on either side of the          *)
(* retention cutoffs: the clock starts two days after the epoch, the        *)
(* requests are stamped one millisecond before the end of the first day, at *)
(* the end of the first day, and at the end of the second.                  *)

StartTime == 2 * DayMs
LogTimes == {DayMs - 1, DayMs, 2 * DayMs}
LogRequests == {LogRequestInfo(IdleRequest.url, "GET", NoHeaders, t) : t \in LogTimes}
LogRuleLists == {<<>>}
LogResponses == {ResponseInfo(200, NoHeaders)}
LogDates == {<<>>, <<DayMs>>}
LogDays == {1, 2}
LogMaxima == 0..MaxLogs
LogFilters ==
    {<<>>,
     <<LogFilter(<<>>, <<>>, <<>>, <<>>, <<[start |-> DayMs, end |-> 2 * DayMs]>>)>>,
     <<LogFilter(<<<<"(">>>>, <<>>, <<>>, <<>>, <<>>)>>}

InitLogger == LoggerStart(StartTime)
NextLogger ==
    \/ LogRequestCall(LogRequests, LogRuleLists)
    \/ LogResponseCall(LogResponses, LogRequests, LogRuleLists)
    \/ GetLogsCall(LogFilters)
    \/ ClearLogsCall(LogDates)
    \/ SetLogsCall(StoredLists(LogRequests))
    \/ ApplyRetentionPolicyCall(LogDays, LogMaxima)
SpecLogger == InitLogger /\ [][NextLogger]_vars

\* the retention call made last: its cutoff and the positions, in the list it
\* found, of the entries inside the retention period
RetentionDone == last.op = "applyRetentionPolicy"
Cutoff == last.time - last.retentionDays * DayMs
InPeriod == {i \in 1..Len(last.before) : last.before[i].timestamp >= Cutoff}

\* C2 as stated, already for maxEntries >= 1: when more than maxEntries
\* entries lie inside the retention period, applyRetentionPolicy keeps
\* maxEntries of them, none with a smaller timestamp than an entry it drops,
\* whatever order the entries were stored in.
C2_AsStated ==
    (RetentionDone /\ last.maxEntries >= 1 /\ Cardinality(InPeriod) > last.maxEntries) =>
        \E K \in SUBSET InPeriod :
           /\ Cardinality(K) = last.maxEntries
           /\ logs = KeepPositions(last.before, K, 1)
           /\ \A i \in K, j \in InPeriod \ K :
                 last.before[i].timestamp >= last.before[j].timestamp

\* C3 as stated: after applyRetentionPolicy the logger holds at most
\* maxEntries entries, none stamped before now - retentionDays, and every
\* entry inside the retention period when these are at most maxEntries.
C3_AsStated ==
    RetentionDone =>
        /\ Len(logs) <= last.maxEntries
        /\ \A i \in 1..Len(logs) : logs[i].timestamp >= Cutoff
        /\ (Cardinality(InPeriod) <= last.maxEntries
               => logs = KeepPositions(last.before, InPeriod, 1))

Chronological(seq) == \A i \in 1..(Len(seq) - 1) : seq[i].timestamp <= seq[i + 1].timestamp

\* C5: whatever calls came before, a getLogs call that returns (with or
\* without a filter) returns entries in non-decreasing timestamp order, and
\* every getLogs call leaves the stored list as it found it.
C5_Chronological ==
    last.op = "getLogs" =>
        /\ ~ret.threw => Chronological(ret.value)
        /\ logs = last.before

\* getLogs has returned, in timestamp order, entries stored out of order
C5_Witness ==
    /\ last.op = "getLogs"
    /\ ~ret.threw
    /\ ~Chronological(logs)
    /\ Len(ret.value) = Len(logs)
    /\ ret.value[1].timestamp < ret.value[Len(ret.value)].timestamp

----------------------------------------------------------------------------
(* Filtered retrieval: at most MaxStored entries, logged for three requests  *)
(* that differ in url, method and timestamp, with or without an applied     *)
(* rule and with or without a response, under every combination of the     *)
(* filter fields.                                                           *)

UrlA == <<"h","t","t","p",":","/","/","a">>
UrlB == <<"h","t","t","p",":","/","/","b">>
QueryRequests ==
    {LogRequestInfo(UrlA, "GET", NoHeaders, 2), LogRequestInfo(UrlB, "GET", NoHeaders, 1)}
QueryAnswered ==
    {LogRequestInfo(UrlB, "GET", NoHeaders, 1), LogRequestInfo(UrlB, "POST", NoHeaders, 3)}
QueryRuleLists == {<<>>, <<IdleRule>>}
QueryResponses == {ResponseInfo(200, NoHeaders), ResponseInfo(404, NoHeaders)}
QueryFilters ==
    {<<>>,
     <<LogFilter(<<<<>>>>, <<>>, <<>>, <<>>, <<>>)>>,
     <<LogFilter(<<<<"(">>>>, <<>>, <<>>, <<>>, <<>>)>>}
    \cup {<<LogFilter(u, m, c, h, d)>> :
            u \in {<<>>, <<<<"b">>>>},
            m \in {<<>>, <<"">>, <<"GET">>},
            c \in {<<>>, <<200>>},
            h \in {<<>>, <<TRUE>>, <<FALSE>>},
            d \in {<<>>, <<[start |-> 2, end |-> 2]>>}}

QueryLogRequest == Len(logs) < MaxStored /\ LogRequestCall(QueryRequests, QueryRuleLists)
QueryLogResponse ==
    /\ LogResponseCall(QueryResponses, QueryAnswered, {<<>>})
    /\ Len(logs') <= MaxStored
\* one retrieval per stored content: getLogs reads no more of the logger than
\* the stored list and leaves it as it found it, so a retrieval that follows
\* another starts from a list the first one was already put to
QueryGetLogs == last.op # "getLogs" /\ GetLogsCall(QueryFilters)

InitQuery == LoggerStart(StartTime)
NextQuery == QueryLogRequest \/ QueryLogResponse \/ QueryGetLogs
SpecQuery == InitQuery /\ [][NextQuery]_vars

\* the predicates of a filter on one entry: the regex test of urlPattern on
\* the url, method equality, statusCode equality, hasModifications against
\* modifications being non-empty, the timestamp within dateRange, both ends
\* included; emptyAsAbsent tells whether a method given as '' counts as absent
Satisfies(log, f, emptyAsAbsent) ==
    /\ f.urlPattern # <<>> => MatchStart(NewRegExp(f.urlPattern[1]).toks, log.url, 1) # 0
    /\ (f.method # <<>> /\ ~(emptyAsAbsent /\ f.method[1] = "")) => log.method = f.method[1]
    /\ f.statusCode # <<>> => log.statusCode = f.statusCode
    /\ f.hasModifications # <<>> => (f.hasModifications[1] <=> Len(log.modifications) > 0)
    /\ f.dateRange # <<>> =>
          (f.dateRange[1].start <= log.timestamp /\ log.timestamp <= f.dateRange[1].end)

\* the stored entries that satisfy the filter of the getLogs call made last
Selected(emptyAsAbsent) ==
    KeepPositions(last.before,
                  {i \in 1..Len(last.before) :
                      last.filter # <<>> => Satisfies(last.before[i], last.filter[1], emptyAsAbsent)},
                  1)

\* the two sequences hold the same entries, each as many times
SameEntries(a, b) ==
    /\ Len(a) = Len(b)
    /\ \A i \in 1..Len(a) :
          Cardinality({j \in 1..Len(a) : a[j] = a[i]}) = Cardinality({j \in 1..Len(b) : b[j] = a[i]})

\* C4 as stated: a getLogs call that returns, returns exactly the stored
\* entries that satisfy every predicate the filter supplies; only an absent
\* field imposes no constraint.
C4_AsStated ==
    (last.op = "getLogs" /\ ~ret.threw) => SameEntries(ret.value, Selected(FALSE))

\* C4 amended: as C4, a method given as the empty string imposing no
\* constraint either; the call throws exactly when urlPattern is given,
\* non-empty, and does not compile.
C4_ExactFilter ==
    last.op = "getLogs" =>
        /\ ~ret.threw => SameEntries(ret.value, Selected(TRUE))
        /\ ret.threw <=> (/\ last.filter # <<>>
                          /\ last.filter[1].urlPattern # <<>>
                          /\ ~NewRegExp(last.filter[1].urlPattern[1]).ok)

\* a filter supplying a method and hasModifications has kept one of two
\* stored entries of that method
C4_Witness ==
    /\ last.op = "getLogs"
    /\ last.filter # <<>>
    /\ last.filter[1].method = <<"GET">>
    /\ last.filter[1].hasModifications = <<TRUE>>
    /\ Len(logs) = 2
    /\ \A i \in 1..2 : logs[i].method = "GET"
    /\ Len(ret.value) = 1
    /\ Len(ret.value[1].modifications) > 0

----------------------------------------------------------------------------
(* Redaction: at most MaxStored entries, logged for an HTTPS and an HTTP    *)
(* url (urls are in the form the browser reports them, the scheme in lower  *)
(* case) with header maps that hold a sensitive name in mixed case          *)
(* (Cookie), one in lower case (api-key) and a name that is not sensitive   *)
(* (X); two of the maps differ in the value of Cookie only.  Header names   *)
(* in the model's inputs name no built-in property.                         *)

UrlS == <<"h","t","t","p","s",":","/","/","a">>
RedactMaps ==
    {(<<"C","o","o","k","i","e">> :> <<"s">>) @@ (<<"X">> :> <<"s">>),
     (<<"C","o","o","k","i","e">> :> <<"t">>) @@ (<<"X">> :> <<"s">>),
     (<<"a","p","i","-","k","e","y">> :> <<"s">>) @@ (<<"X">> :> <<"t">>)}
RedactRequests == {LogRequestInfo(u, "GET", h, StartTime) : u \in {UrlS, UrlA}, h \in RedactMaps}
RedactResponses == {ResponseInfo(200, h) : h \in RedactMaps}

RedactLogRequest == Len(logs) < MaxStored /\ LogRequestCall(RedactRequests, {<<>>})
RedactLogResponse ==
    /\ LogResponseCall(RedactResponses, RedactRequests, {<<>>})
    /\ Len(logs') <= MaxStored

InitRedact == LoggerStart(StartTime)
NextRedact == RedactLogRequest \/ RedactLogResponse
SpecRedact == InitRedact /\ [][NextRedact]_vars

\* the names C6 lists, and the header map C6 asks to be stored for an
\* exchange: on an https:// url '[FILTERED]' under every name that is one of
\* them once lower-cased and the original value under every other name, on
\* any other url the map as given
ProtectedNames ==
    {<<"a","u","t","h","o","r","i","z","a","t","i","o","n">>,
     <<"c","o","o","k","i","e">>,
     <<"s","e","t","-","c","o","o","k","i","e">>,
     <<"p","r","o","x","y","-","a","u","t","h","o","r","i","z","a","t","i","o","n">>,
     <<"w","w","w","-","a","u","t","h","e","n","t","i","c","a","t","e">>,
     <<"x","-","a","p","i","-","k","e","y">>,
     <<"a","p","i","-","k","e","y">>}
Protected(name) == toLowerCase(name) \in ProtectedNames
IsHttps(url) == Len(url) >= 8 /\ SubSeq(url, 1, 8) = <<"h","t","t","p","s",":","/","/">>
Redacted(url, headers) ==
    IF IsHttps(url)
    THEN [k \in DOMAIN headers |->
            IF Protected(k) THEN <<"[","F","I","L","T","E","R","E","D","]">> ELSE headers[k]]
    ELSE headers

\* the two maps differ at most in the values held under protected names
SameButProtected(h1, h2) ==
    /\ DOMAIN h1 = DOMAIN h2
    /\ \A k \in DOMAIN h1 : Protected(k) \/ h1[k] = h2[k]

\* the entry the log call made last has written: the one it appended, or
\* the one logResponse merged the response into
Appended == Len(logs) = Len(last.before) + 1
Touched ==
    IF Appended THEN logs[Len(logs)]
    ELSE logs[CHOOSE i \in 1..Len(logs) : logs[i] # last.before[i]]
CounterBefore == logIdCounter - (Len(logs) - Len(last.before))

\* C6: the entry stored by logRequest carries the redacted request headers,
\* the entry stored or completed by logResponse the redacted response
\* headers (and, when new, the redacted request headers); no stored entry of
\* an https:// url holds another value than '[FILTERED]' under a protected
\* name; an exchange on an https:// url that differs from the logged one in
\* values under protected names only would have left the same log; on any
\* other url the headers are stored as given.
C6_Redaction ==
    /\ last.op = "logRequest" =>
          /\ Touched.requestHeaders = Redacted(last.request.url, last.request.headers)
          /\ \A h \in RedactMaps :
                (IsHttps(last.request.url) /\ SameButProtected(h, last.request.headers)) =>
                   logRequest(last.before, CounterBefore, now,
                              [last.request EXCEPT !.headers = h], last.appliedRules).logs = logs
    /\ last.op = "logResponse" =>
          /\ Touched.responseHeaders = <<Redacted(last.request.url, last.response.headers)>>
          /\ Appended => Touched.requestHeaders = Redacted(last.request.url, last.request.headers)
          /\ \A h1, h2 \in RedactMaps :
                (/\ IsHttps(last.request.url)
                 /\ SameButProtected(h1, last.request.headers)
                 /\ SameButProtected(h2, last.response.headers)) =>
                   logResponse(last.before, CounterBefore, now,
                               [last.response EXCEPT !.headers = h2],
                               [last.request EXCEPT !.headers = h1], last.appliedRules).logs = logs
    /\ \A i \in 1..Len(logs) :
          IsHttps(logs[i].url) =>
             /\ \A k \in DOMAIN logs[i].requestHeaders :
                   Protected(k) => logs[i].requestHeaders[k] = <<"[","F","I","L","T","E","R","E","D","]">>
             /\ logs[i].responseHeaders # <<>> =>
                   \A k \in DOMAIN logs[i].responseHeaders[1] :
                      Protected(k) =>
                         logs[i].responseHeaders[1][k] = <<"[","F","I","L","T","E","R","E","D","]">>

\* a response with an api-key header was merged into the entry of an https://
\* request logged with a Cookie header: both values are stored as
\* '[FILTERED]', the value of X as given
C6_Witness ==
    /\ last.op = "logResponse"
    /\ ~Appended
    /\ IsHttps(Touched.url)
    /\ <<"C","o","o","k","i","e">> \in DOMAIN Touched.requestHeaders
    /\ Touched.requestHeaders[<<"C","o","o","k","i","e">>] = <<"[","F","I","L","T","E","R","E","D","]">>
    /\ Touched.requestHeaders[<<"X">>] = <<"s">>
    /\ <<"a","p","i","-","k","e","y">> \in DOMAIN last.response.headers
    /\ Touched.responseHeaders[1][<<"a","p","i","-","k","e","y">>] = <<"[","F","I","L","T","E","R","E","D","]">>
    /\ Touched.responseHeaders[1][<<"X">>] = <<"t">>

----------------------------------------------------------------------------
(* Correlation of responses: at most MaxStored entries, for requests on the *)
(* same url and method stamped at the start, one millisecond inside and at  *)
(* the end of the 5000 ms window, a request with another method and one on  *)
(* another url; responses with the status codes 0 (what a browser reports   *)
(* for a failed or opaque response) and 200; no rule, one rule or two rules *)
(* applied, the rules being distinct in id and name.                        *)

HeaderRule ==
    MkRule("r1", TRUE, 2, WildcardPattern(<<"*">>),
           [type |-> "modifyHeaders", requestHeaders |-> <<<<>>>>, responseHeaders |-> <<<<>>>>])
MergeRequests ==
    {LogRequestInfo(UrlA, "GET", NoHeaders, StartTime + d) : d \in {0, WindowMs - 1, WindowMs}}
    \cup {LogRequestInfo(UrlA, "POST", NoHeaders, StartTime),
          LogRequestInfo(UrlB, "GET", NoHeaders, StartTime)}
MergeResponses == {ResponseInfo(0, NoHeaders), ResponseInfo(200, NoHeaders)}
MergeRuleLists == {<<>>, <<IdleRule>>, <<HeaderRule, IdleRule>>}

MergeLogRequest == Len(logs) < MaxStored /\ LogRequestCall(MergeRequests, MergeRuleLists)
MergeLogResponse ==
    /\ LogResponseCall(MergeResponses, MergeRequests, MergeRuleLists)
    /\ Len(logs') <= MaxStored

InitMerge == LoggerStart(StartTime)
NextMerge == MergeLogRequest \/ MergeLogResponse
SpecMerge == InitMerge /\ [][NextMerge]_vars

\* an entry with the url and method of the request, no statusCode yet, and a
\* timestamp less than 5000 ms from the request's
PendingFor(log, req) ==
    /\ log.url = req.url
    /\ log.method = req.method
    /\ log.statusCode = <<>>
    /\ Abs(log.timestamp - req.timestamp) < 5000

NoDuplicates(seq) == \A i, j \in 1..Len(seq) : seq[i] = seq[j] => i = j

\* entry `after` is entry `before` completed by the logResponse call made
\* last: statusCode and redacted responseHeaders set, the rule ids and the
\* modification strings it did not hold added, nothing else changed
Completed(before, after) ==
    /\ after.statusCode = <<last.response.statusCode>>
    /\ after.responseHeaders = <<Redacted(last.request.url, last.response.headers)>>
    /\ after.appliedRules =
          before.appliedRules \o NotIncludedIn(RuleIds(last.appliedRules), before.appliedRules)
    /\ after.modifications =
          before.modifications
          \o NotIncludedIn(extractModifications(last.appliedRules), before.modifications)
    /\ NoDuplicates(before.appliedRules) => NoDuplicates(after.appliedRules)
    /\ NoDuplicates(before.modifications) => NoDuplicates(after.modifications)
    /\ after = [before EXCEPT !.statusCode = after.statusCode,
                              !.responseHeaders = after.responseHeaders,
                              !.appliedRules = after.appliedRules,
                              !.modifications = after.modifications]

\* C7 as stated: when the log holds an entry pending for the request,
\* logResponse adds no entry and completes one such entry, leaving the others
\* alone; otherwise it appends exactly one entry, which carries the statusCode.
C7_AsStated ==
    last.op = "logResponse" =>
        LET pending == {i \in 1..Len(last.before) : PendingFor(last.before[i], last.request)}
        IN  IF pending # {}
            THEN /\ Len(logs) = Len(last.before)
                 /\ \E i \in pending :
                       /\ Completed(last.before[i], logs[i])
                       /\ \A j \in 1..Len(logs) : j # i => logs[j] = last.before[j]
            ELSE /\ Len(logs) = Len(last.before) + 1
                 /\ SubSeq(logs, 1, Len(last.before)) = last.before
                 /\ logs[Len(logs)].statusCode = <<last.response.statusCode>>

----------------------------------------------------------------------------
(* applyRule on rules of the four action kinds: redirections whose          *)
(* destination is a URL, a text that is no URL, a text that is no regular   *)
(* expression, with regexSubstitution undefined, '', or a text; body        *)
(* modifications of every content type by a JSON path that exists, a path   *)
(* through a missing segment, a replacement that is JSON, one that is not,  *)
(* and a binary one, on requests without body, with an empty body, a JSON   *)
(* body, a body that is not JSON and a binary body.                         *)

UrlAB == <<"h","t","t","p",":","/","/","a","/","b">>
JsonA1 == <<"{","\"","a","\"",":","1","}">>
JsonC2 == <<"{","\"","c","\"",":","2","}">>
StringOf(text) == [t |-> "string", v |-> text]
BufferOf(text) == [t |-> "buffer", v |-> text]

RedirectDestinations == {<<"h","t","t","p",":","/","/","b">>, <<"b">>, <<"(">>, <<"h","t","t","p">>}
RedirectSubstitutions == {<<>>, <<<<>>>>, <<<<"/","c">>>>, <<<<":">>>>}
RedirectRules ==
    {MkRule("r2", TRUE, 1, WildcardPattern(<<"*">>),
            [type |-> "redirect", destination |-> d, regexSubstitution |-> sub])
       : d \in RedirectDestinations, sub \in RedirectSubstitutions}

BodyModifications ==
    {[type |-> "jsonPath", path |-> <<"a">>, value |-> JNum(2)],
     [type |-> "jsonPath", path |-> <<"x",".","y">>, value |-> JNum(2)],
     [type |-> "jsonPath", path |-> <<"c","o","n","s","t","r","u","c","t","o","r",".","y">>,
      value |-> JNum(2)],
     [type |-> "replace", content |-> StringOf(JsonC2)],
     [type |-> "replace", content |-> StringOf(<<"x">>)],
     [type |-> "replace", content |-> BufferOf(<<"x">>)]}
BodyRules ==
    {MkRule("r3", TRUE, 1, WildcardPattern(<<"*">>),
            [type |-> "modifyBody", target |-> "request", contentType |-> ct, modification |-> mod])
       : ct \in {"json", "text", "binary"}, mod \in BodyModifications}

ApplyHeaderRules ==
    {MkRule("r1", TRUE, 1, WildcardPattern(<<"*">>),
            [type |-> "modifyHeaders", requestHeaders |-> <<ops>>, responseHeaders |-> <<>>])
       : ops \in {<<[operation |-> "set", header |-> <<"X">>, value |-> <<<<"a">>>>]>>,
                  <<[operation |-> "set", header |-> <<"T","e">>, value |-> <<<<"a">>>>],
                    [operation |-> "remove", header |-> <<"X">>, value |-> <<>>]>>}}
    \cup {MkRule("r1", TRUE, 1, WildcardPattern(<<"*">>),
                 [type |-> "modifyHeaders", requestHeaders |-> <<>>,
                  responseHeaders |-> <<<<[operation |-> "set", header |-> <<"X">>,
                                           value |-> <<<<"a">>>>]>>>>])}

ApplyRules == RedirectRules \cup BodyRules \cup ApplyHeaderRules \cup {IdleRule}
ApplyBodies ==
    {<<>>, <<StringOf(<<>>)>>, <<StringOf(JsonA1)>>, <<StringOf(<<"x">>)>>, <<BufferOf(JsonA1)>>}
ApplyRequests ==
    {MkRequest(UrlAB, "POST", h, b) : h \in {NoHeaders, (<<"X">> :> <<"b">>)}, b \in ApplyBodies}

InitApply == EngineStart(ApplyRules, ApplyRequests)
NextApply == ApplyRuleCall
SpecApply == InitApply /\ [][NextApply]_vars

\* the exchange applyRule starts from, and what the trace holds
Fresh ==
    [url |-> request.url, method |-> request.method, headers |-> request.headers,
     body |-> request.body, modifications |-> <<>>]
TraceHas(kind) == \E i \in 1..Len(Trace) : Trace[i].kind = kind
ApplyDone == ecall = "applyRule"

\* C8: applyRule returns for every rule and exchange; where the redirection
\* or the body modification fails (the destination is no regular expression,
\* the resulting url is no URL, the body or the replacement is no JSON, the
\* path runs through a missing segment) the trace holds the error entry, and
\* 'No body to modify' where there is no body; every body or redirect rule
\* leaves an entry.
C8_NeverThrows ==
    ApplyDone =>
        /\ ~modified[1].threw
        /\ (rule.action.type = "redirect" /\ RedirectTry(rule.action, Fresh, request).threw)
              => TraceHas("Error: Invalid URL redirection - ")
        /\ (rule.action.type = "modifyBody" /\ NoBody(Fresh)) => TraceHas("No body to modify")
        /\ (rule.action.type = "modifyBody" /\ ~NoBody(Fresh) /\ BodyTry(rule.action, Fresh).threw)
              => TraceHas("Error modifying body: ")
        /\ rule.action.type \in {"redirect", "mockResponse"} => Len(Trace) = 1

\* a JSON path through a missing segment was applied to a JSON body: the
\* call has returned, the trace holding the error entry
C8_Witness ==
    /\ ApplyDone
    /\ rule.action.type = "modifyBody"
    /\ rule.action.contentType = "json"
    /\ rule.action.modification.type = "jsonPath"
    /\ rule.action.modification.path = <<"x",".","y">>
    /\ request.body = <<StringOf(JsonA1)>>
    /\ ~modified[1].threw
    /\ TraceHas("Error modifying body: ")
    /\ Outcome.body = request.body

\* what C9 asks of a redirection that was applied; whenPresent tells whether
\* a regexSubstitution of '' selects the regex replacement, as every present
\* regexSubstitution does, or the destination verbatim
RedirectAsClaimed(whenPresent) ==
    LET sub       == rule.action.regexSubstitution
        useRe     == IF whenPresent THEN sub # <<>> ELSE (sub # <<>> /\ sub[1] # <<>>)
        regex     == NewRegExp(rule.action.destination)
        candidate == IF useRe THEN ReplaceFirst(request.url, regex.toks, sub[1])
                     ELSE rule.action.destination
    IN  IF (useRe /\ ~regex.ok) \/ ~IsValidURL(candidate)
        THEN /\ Outcome.url = request.url
             /\ Outcome.method = request.method
             /\ Outcome.headers = request.headers
             /\ Outcome.body = request.body
             /\ TraceHas("Error: Invalid URL redirection - ")
             /\ ~TraceHas("Redirected to: ")
        ELSE /\ Outcome.url = candidate
             /\ \E i \in 1..Len(Trace) :
                   Trace[i].kind = "Redirected to: " /\ Trace[i].value = candidate
             /\ ~TraceHas("Error: Invalid URL redirection - ")
             /\ Outcome.method = request.method
             /\ Outcome.body = request.body

RedirectDone == ApplyDone /\ rule.action.type = "redirect" /\ ~modified[1].threw

\* C9 as stated: the candidate is the original url with the first match of
\* destination replaced whenever regexSubstitution is present, the
\* destination otherwise; a candidate that is no URL leaves the exchange as
\* it was and an error entry in the trace, one that is a URL becomes the url
\* and leaves 'Redirected to', method and body unchanged.
C9_AsStated == RedirectDone => RedirectAsClaimed(TRUE)

\* C9 amended: as C9, the regex replacement being selected by a
\* regexSubstitution that is present and not the empty string; a destination
\* that is no regular expression, where the replacement is selected, ends as
\* a candidate that is no URL does.
C9_Redirect == RedirectDone => RedirectAsClaimed(FALSE)

\* a regex replacement has produced a text that is no URL: the url is the
\* original one and the trace holds the error entry
C9_Witness ==
    /\ RedirectDone
    /\ rule.action.destination = <<"h","t","t","p">>
    /\ rule.action.regexSubstitution = <<<<":">>>>
    /\ Outcome.url = request.url
    /\ TraceHas("Error: Invalid URL redirection - ")

----------------------------------------------------------------------------
(* evaluateRule called repeatedly on one rule object and one request: the   *)
(* rule enabled or disabled, its pattern a wildcard string (with and        *)
(* without '*', with characters that are special in a regular expression)   *)
(* or a RegExp object, created with or without the g flag.                  *)

UrlHttpA == <<"h","t","t","p",":","/","/","a">>
EvalUrls ==
    {UrlHttpA, UrlHttpA \o <<"b">>, UrlHttpA \o <<".">>, <<"h","t","t","p","s",":","/","/","b","a">>}
EvalWildcards ==
    {<<"*">>, UrlHttpA, <<"h","t","t","p",":","/","/","*">>, <<"*","a">>, UrlHttpA \o <<".">>,
     <<"h","t","t","*",":","/","/","*","a">>, <<"h","t","t","p","s","?",":","/","/","a">>}
EvalRegExps == {<<"a">>, <<"^">> \o UrlHttpA \o <<"$">>, <<"b",".","*">>, <<"p","s">>}
EvalPatterns ==
    {WildcardPattern(src) : src \in EvalWildcards}
       \cup {RegExpPattern(src, g) : src \in EvalRegExps, g \in BOOLEAN}
EvalRules == {MkRule("r1", en, 1, pat, MockAction) : en \in BOOLEAN, pat \in EvalPatterns}
EvalRequests == {MkRequest(url, "GET", NoHeaders, <<>>) : url \in EvalUrls}

InitEvaluate == EngineStart(EvalRules, EvalRequests)
NextEvaluate == EvaluateRuleCall
SpecEvaluate == InitEvaluate /\ [][NextEvaluate]_vars

\* the whole of s matches the wildcard p: '*' stands for any sequence of
\* characters, every other character for itself
RECURSIVE GlobMatch(_, _)
GlobMatch(p, s) ==
    IF p = <<>> THEN s = <<>>
    ELSE IF Head(p) = "*"
         THEN GlobMatch(Tail(p), s) \/ (s # <<>> /\ GlobMatch(p, Tail(s)))
         ELSE s # <<>> /\ Head(s) = Head(p) /\ GlobMatch(Tail(p), Tail(s))

\* the regular expression src matches somewhere in s
FreshTest(src, s) == MatchStart(NewRegExp(src).toks, s, 1) # 0

\* C10: every call of evaluateRule on a rule and an exchange returns false
\* where the rule is disabled, whether the whole url matches the wildcard
\* where the pattern is a string, the regex test of the url where it is a
\* RegExp; repeated calls return the same result.
C10_AsStated ==
    \A i \in 1..Len(evals) :
        /\ evals[i] = evals[1]
        /\ ~rule.enabled => evals[i] = FALSE
        /\ (rule.enabled /\ rule.urlPattern.kind = "string")
              => evals[i] = GlobMatch(rule.urlPattern.src, request.url)
        /\ (rule.enabled /\ rule.urlPattern.kind = "regexp")
              => evals[i] = FreshTest(rule.urlPattern.src, request.url)

----------------------------------------------------------------------------
(* sortByPriority                                                           *)

\* Array.prototype.sort with (a, b) => b.priority - a.priority: stable, the
\* element of higher priority first
RECURSIVE InsertByPriority(_, _)
InsertByPriority(r, sorted) ==
    IF sorted = <<>> THEN <<r>>
    ELSE IF Head(sorted).priority - r.priority < 0
         THEN <<r>> \o sorted
         ELSE <<Head(sorted)>> \o InsertByPriority(r, Tail(sorted))

RECURSIVE SortDescending(_)
SortDescending(rs) ==
    IF rs = <<>> THEN <<>>
    ELSE InsertByPriority(rs[Len(rs)], SortDescending(SubSeq(rs, 1, Len(rs) - 1)))

\* (mutant: the array is sorted in place, without the copy)
sortByPriorityMut(rs) == [rules |-> SortDescending(rs), value |-> SortDescending(rs)]

\* sortByPriority(rules): the argument array after the call and the array returned
sortByPriority(rs) == [rules |-> rs, value |-> SortDescending(rs)]

\* engine.sortByPriority(rules)
SortByPriorityCall ==
    /\ produced = <<>>
    /\ \E after \in {sortByPriority(rules)} :
          /\ rules' = after.rules
          /\ produced' = <<[before |-> rules, value |-> after.value]>>
    /\ ecall' = "sortByPriority"
    /\ UNCHANGED <<rule, request, modified, evals, loggerVars, storageVars, workerVars>>

\* lists of at most MaxRules rules, two of which may be the same object
SortPriorities == 1..3
SortRules ==
    {MkRule(id, TRUE, p, WildcardPattern(<<"*">>), MockAction) : id \in {"r1", "r2"}, p \in SortPriorities}
RuleLists(ruleSet) == UNION {[1..n -> ruleSet] : n \in 0..MaxRules}

InitSort ==
    /\ EngineIdle
    /\ LoggerIdle
    /\ StorageIdle
    /\ WorkerIdle
    /\ rules \in RuleLists(SortRules)
    /\ produced = <<>>
NextSort == SortByPriorityCall
SpecSort == InitSort /\ [][NextSort]_vars

\* the number of positions of s that hold x
Count(s, x) == Cardinality({i \in 1..Len(s) : s[i] = x})
IsPermutation(s, t) ==
    /\ Len(s) = Len(t)
    /\ \A i \in 1..Len(s) : Count(s, s[i]) = Count(t, s[i])
SortDone == ecall = "sortByPriority" /\ produced # <<>>

\* C11: the list sortByPriority returns is a permutation of the list it was
\* given, no element of higher priority follows one of lower priority, and
\* the list it was given is the same after the call.
C11_SortByPriority ==
    SortDone =>
        LET before == produced[1].before
            sorted == produced[1].value
        IN  /\ IsPermutation(before, sorted)
            /\ \A i \in 1..Len(sorted) : \A j \in i..Len(sorted) :
                  sorted[i].priority >= sorted[j].priority
            /\ rules = before

\* a list that is not in order, two of its rules having the same priority,
\* has been sorted
C11_Witness ==
    /\ SortDone
    /\ Len(rules) = 3
    /\ rules[1].priority < rules[3].priority
    /\ rules[2].priority = rules[3].priority
    /\ rules[2] # rules[3]
    /\ produced[1].value = <<rules[2], rules[3], rules[1]>>

----------------------------------------------------------------------------
(* StorageManager: rules                                                    *)
(* A Date is [t |-> "date", ms], the text toISOString gives for it          *)
(* [t |-> "iso", ms]; a value that came through JSON holds the text where   *)
(* the Date was.                                                            *)

DateOf(ms) == [t |-> "date", ms |-> ms]
IsoOf(ms) == [t |-> "iso", ms |-> ms]

\* d.toISOString(): a TypeError where d is no Date
toISOString(d) ==
    IF d.t = "date" THEN [ok |-> TRUE, v |-> IsoOf(d.ms)] ELSE [ok |-> FALSE, v |-> d]

\* new Date(text)
NewDate(text) == DateOf(text.ms)

\* RegExp.prototype.source: the pattern text, '/' escaped, '(?:)' for the empty pattern
RECURSIVE EscapeSlashes(_)
EscapeSlashes(src) ==
    IF src = <<>> THEN <<>>
    ELSE (IF Head(src) = "/" THEN <<"\\", "/">> ELSE <<Head(src)>>) \o EscapeSlashes(Tail(src))
RegExpSource(src) ==
    IF src = <<>> THEN <<"(", "?", ":", ")">> ELSE EscapeSlashes(src)

\* a rule as the store and the worker hold it
StoredRule(id, name, enabled, priority, pattern, action, createdAt, modifiedAt) ==
    [id |-> id, name |-> name, enabled |-> enabled, priority |-> priority,
     urlPattern |-> pattern, action |-> action, createdAt |-> createdAt, modifiedAt |-> modifiedAt]

\* { ...rule, urlPattern: source or string, createdAt: ISO text, modifiedAt: ISO text }
SerializeRule(r) ==
    LET createdIso  == toISOString(r.createdAt)
        modifiedIso == toISOString(r.modifiedAt)
    IN  [ok |-> createdIso.ok /\ modifiedIso.ok,
         v  |-> [r EXCEPT !.urlPattern = IF r.urlPattern.kind = "regexp"
                                         THEN RegExpSource(r.urlPattern.src)
                                         ELSE r.urlPattern.src,
                          !.createdAt = createdIso.v,
                          !.modifiedAt = modifiedIso.v]]

\* rulesMap[key] = value on an object whose keys are no array indices: a key
\* already there keeps its place
PutKey(map, key, value) ==
    IF \E i \in 1..Len(map) : map[i].key = key
    THEN [i \in 1..Len(map) |-> IF map[i].key = key THEN [key |-> key, value |-> value] ELSE map[i]]
    ELSE Append(map, [key |-> key, value |-> value])

\* the loop of saveRules: the map built, or the failure of a toISOString
RECURSIVE BuildRulesMap(_, _)
BuildRulesMap(rs, map) ==
    IF rs = <<>> THEN [ok |-> TRUE, map |-> map]
    ELSE LET ser == SerializeRule(Head(rs))
         IN  IF ~ser.ok THEN [ok |-> FALSE, map |-> map]
             ELSE BuildRulesMap(Tail(rs), PutKey(map, Head(rs).id, ser.v))

\* how a call of chrome.storage ends: it resolves, or rejects with a
\* quota error or with another error
StorageOutcomes == {"ok", "quota", "error"}
ExtensionError(message, userMessage) ==
    [message |-> message, code |-> "STORAGE_ERROR", recoverable |-> TRUE, userMessage |-> userMessage]
isQuotaExceededError(outcome) == outcome = "quota"

\* updateMetadata(): storage.set({metadata})
Metadata(time) == [version |-> "1.0.0", lastSync |-> IsoOf(time)]

\* the catch of saveRules and saveConfig
SaveFailure(outcome, quotaAdvice, otherAdvice) ==
    IF isQuotaExceededError(outcome)
    THEN ExtensionError("Storage quota exceeded", quotaAdvice)
    ELSE ExtensionError(outcome, otherAdvice)

\* saveRules(rules), the two storage calls ending as setOutcome and
\* metaOutcome: the store afterwards and <<>> or <<the error thrown>>
saveRules(st, rs, time, setOutcome, metaOutcome) ==
    LET built == BuildRulesMap(rs, <<>>)
        quota == "Storage limit reached. Please clear old logs or rules to free up space."
        other == "Failed to save rules. Please try again."
    IN  IF ~built.ok
        THEN [store |-> st, threw |-> <<SaveFailure("TypeError", quota, other)>>]
        ELSE IF setOutcome # "ok"
        THEN [store |-> st, threw |-> <<SaveFailure(setOutcome, quota, other)>>]
        ELSE LET written == [st EXCEPT !.rules = <<built.map>>]
             IN  IF metaOutcome # "ok"
                 THEN [store |-> written, threw |-> <<SaveFailure(metaOutcome, quota, other)>>]
                 ELSE [store |-> [written EXCEPT !.metadata = <<Metadata(time)>>],
                       threw |-> <<>>]

\* { ...serializedRule, urlPattern: serializedRule.urlPattern, createdAt: new Date(..), modifiedAt: new Date(..) }
DeserializeRule(ser) ==
    [ser EXCEPT !.urlPattern = WildcardPattern(ser.urlPattern),
                !.createdAt = NewDate(ser.createdAt),
                !.modifiedAt = NewDate(ser.modifiedAt)]

\* loadRules(), the storage call ending as getOutcome
loadRules(st, getOutcome) ==
    IF getOutcome # "ok" \/ st.rules = <<>>
    THEN <<>>
    ELSE [i \in 1..Len(st.rules[1]) |-> DeserializeRule(st.rules[1][i].value)]

\* storageManager.saveRules(rules)
SaveRulesCall(lists) ==
    /\ sret.op = "none"
    /\ \E rs \in lists, setOutcome \in StorageOutcomes, metaOutcome \in StorageOutcomes :
          \E after \in {saveRules(store, rs, now, setOutcome, metaOutcome)} :
             /\ store' = after.store
             /\ sret' = [op |-> "saveRules", rules |-> rs, threw |-> after.threw]
    /\ UNCHANGED <<defaults, engineVars, loggerVars, batchVars, workerVars>>

\* storageManager.loadRules()
LoadRulesCall ==
    /\ sret.op = "saveRules"
    /\ \E getOutcome \in StorageOutcomes :
          sret' = [op |-> "loadRules", outcome |-> getOutcome,
                   value |-> loadRules(store, getOutcome), prior |-> sret]
    /\ UNCHANGED <<store, defaults, engineVars, loggerVars, batchVars, workerVars>>

----------------------------------------------------------------------------
(* saveRules followed by loadRules, on lists of rules with distinct ids     *)
(* whose urlPattern is a wildcard string or a RegExp object (one of them    *)
(* with '/' in its source), each storage call resolving or rejecting.       *)

PersistIds == {"r1", "r2", "r3"}
PersistPatterns ==
    {WildcardPattern(<<"*">>), RegExpPattern(<<"a">>, FALSE), RegExpPattern(<<"/", "a">>, FALSE)}
PersistRule(id, pattern) ==
    StoredRule(id, id, TRUE, 1, pattern, MockAction, DateOf(DayMs), DateOf(2 * DayMs))
Min(a, b) == IF a < b THEN a ELSE b
DistinctIdLists(ids, n) == {f \in [1..n -> ids] : \A i, j \in 1..n : f[i] = f[j] => i = j}
PersistLists ==
    UNION {UNION {{[i \in 1..n |-> PersistRule(idl[i], pl[i])] : pl \in [1..n -> PersistPatterns]}
                    : idl \in DistinctIdLists(PersistIds, n)}
             : n \in 0..Min(MaxRules, Cardinality(PersistIds))}
PersistUrls == {UrlHttpA, <<"a">>, <<"/", "a">>}
PersistRequests == {MkRequest(url, "GET", NoHeaders, <<>>) : url \in PersistUrls}

InitPersist == LoggerStart(StartTime)
NextPersist == SaveRulesCall(PersistLists) \/ LoadRulesCall
SpecPersist == InitPersist /\ [][NextPersist]_vars

\* loadRules has returned, the read having succeeded, after a saveRules that did not throw
RoundTripDone ==
    /\ sret.op = "loadRules"
    /\ sret.outcome = "ok"
    /\ sret.prior.threw = <<>>

\* the loaded rule is the original one in every field, and evaluateRule
\* answers for it as for the original
EquivalentRules(original, loaded) ==
    /\ loaded.id = original.id
    /\ loaded.name = original.name
    /\ loaded.enabled = original.enabled
    /\ loaded.priority = original.priority
    /\ loaded.urlPattern = original.urlPattern
    /\ loaded.action = original.action
    /\ loaded.createdAt = original.createdAt
    /\ loaded.modifiedAt = original.modifiedAt
    /\ \A req \in PersistRequests :
          evaluateRule(loaded, req).result = evaluateRule(original, req).result

\* C12: loadRules after a successful saveRules(rules), the ids being
\* distinct, returns as many rules as were saved, and for each saved rule a
\* rule equal to it in id, name, enabled, priority, urlPattern, action,
\* createdAt and modifiedAt, for which evaluateRule answers the same on
\* every exchange.
C12_AsStated ==
    RoundTripDone =>
        /\ Len(sret.value) = Len(sret.prior.rules)
        /\ \A i \in 1..Len(sret.prior.rules) :
              \E j \in 1..Len(sret.value) : EquivalentRules(sret.prior.rules[i], sret.value[j])

----------------------------------------------------------------------------
(* StorageManager.importData                                                *)

\* isValidRule(rule), for an object whose id, name, enabled, priority,
\* urlPattern and action are of the types it asks for: createdAt and
\* modifiedAt are there
Undated == [t |-> "undefined", ms |-> 0]
isValidRule(r) == r.createdAt # Undated /\ r.modifiedAt # Undated

ImportError(kind, name) == [kind |-> kind, name |-> name]

\* the loop of importData over data.rules: the names seen, the rules to
\* import and the result so far
RECURSIVE ImportLoop(_, _, _, _)
ImportLoop(bundle, existingNames, rulesToImport, result) ==
    IF bundle = <<>>
    THEN [rulesToImport |-> rulesToImport, result |-> result]
    ELSE LET r == Head(bundle) IN
         IF ~isValidRule(r)
         THEN ImportLoop(Tail(bundle), existingNames, rulesToImport,
                         [result EXCEPT !.skippedRules = @ + 1,
                                        !.errors = Append(@, ImportError("Invalid rule structure: ", r.name))])
         ELSE IF r.name \in existingNames
         THEN ImportLoop(Tail(bundle), existingNames, rulesToImport,
                         [result EXCEPT !.skippedRules = @ + 1,
                                        !.errors = Append(@, ImportError("Duplicate rule name: ", r.name))])
         ELSE ImportLoop(Tail(bundle), existingNames \cup {r.name}, Append(rulesToImport, r),
                         [result EXCEPT !.importedRules = @ + 1])

\* importData(data), data.rules being <<>> (no array) or <<the array>>, the
\* storage calls ending as getOutcome, setOutcome and metaOutcome: the store
\* afterwards and the ImportResult
importData(st, data, time, getOutcome, setOutcome, metaOutcome) ==
    LET result == [success |-> TRUE, importedRules |-> 0, skippedRules |-> 0, errors |-> <<>>]
    IN  IF data.rules = <<>>
        THEN [store |-> st,
              result |-> [result EXCEPT !.success = FALSE,
                                        !.errors = <<ImportError("Invalid data format: rules must be an array", "")>>]]
        ELSE LET existingRules == loadRules(st, getOutcome)
                 existingNames == {existingRules[i].name : i \in 1..Len(existingRules)}
                 looped == ImportLoop(data.rules[1], existingNames, <<>>, result)
                 saved  == IF looped.rulesToImport # <<>>
                           THEN saveRules(st, existingRules \o looped.rulesToImport, time,
                                          setOutcome, metaOutcome)
                           ELSE [store |-> st, threw |-> <<>>]
             IN  IF saved.threw # <<>>
                 THEN [store |-> saved.store,
                       result |-> [looped.result EXCEPT
                                      !.success = FALSE,
                                      !.errors = Append(@, ImportError("Import failed: ", saved.threw[1].message))]]
                 ELSE [store |-> saved.store,
                       result |-> [looped.result EXCEPT
                                      !.success = (looped.result.importedRules > 0
                                                     \/ looped.result.skippedRules = 0)]]

\* storageManager.importData(data)
ImportDataCall(bundles) ==
    /\ sret.op # "importData"
    /\ \E data \in bundles, getOutcome \in StorageOutcomes,
          setOutcome \in StorageOutcomes, metaOutcome \in StorageOutcomes :
          \E after \in {importData(store, data, now, getOutcome, setOutcome, metaOutcome)} :
             /\ store' = after.store
             /\ sret' = [op |-> "importData", data |-> data, before |-> store,
                         outcome |-> getOutcome, value |-> after.result]
    /\ UNCHANGED <<defaults, engineVars, loggerVars, batchVars, workerVars>>

----------------------------------------------------------------------------
(* importData on a store that holds no rule or rules of distinct names,     *)
(* with bundles of rules new to the store, named as a stored rule, named    *)
(* alike among themselves, having the id of a stored rule, dated by Date    *)
(* objects or by the text JSON carries, or without dates.                   *)

ImportStored ==
    {<<>>,
     <<PersistRule("r1", WildcardPattern(<<"*">>))>>,
     <<PersistRule("r1", WildcardPattern(<<"*">>)), PersistRule("r2", WildcardPattern(<<"*">>))>>}
BundleRule(id, name, date) ==
    StoredRule(id, name, TRUE, 1, WildcardPattern(<<"*">>), MockAction, date, date)
BundleRules ==
    {BundleRule(id, name, date) : id \in {"r1", "r4"}, name \in {"r1", "r2", "r4"},
                                  date \in {DateOf(DayMs), IsoOf(DayMs)}}
       \cup {BundleRule("r5", "r5", Undated)}
Bundles ==
    {[rules |-> <<>>]} \cup {[rules |-> <<l>>] : l \in RuleLists(BundleRules)}

\* the store after saveRules(rs) on the empty store
StoreOf(rs) == saveRules(EmptyStore, rs, DayMs, "ok", "ok").store

\* the logger as constructed, the clock at time
LoggerAt(time) ==
    /\ logs = <<>>
    /\ logIdCounter = 0
    /\ now = time
    /\ ret = NoReturn
    /\ last = [op |-> "none"]

InitImport ==
    /\ EngineIdle
    /\ LoggerAt(StartTime)
    /\ BatchIdle
    /\ WorkerIdle
    /\ store \in {StoreOf(rs) : rs \in ImportStored}
    /\ defaults = DEFAULT_CONFIG
    /\ sret = [op |-> "none"]
NextImport == ImportDataCall(Bundles)
SpecImport == InitImport /\ [][NextImport]_vars

\* the names of the rules a store holds
StoredNames(st) ==
    IF st.rules = <<>> THEN {} ELSE {st.rules[1][i].value.name : i \in 1..Len(st.rules[1])}
UniqueNames(st) ==
    st.rules # <<>> =>
        \A i, j \in 1..Len(st.rules[1]) :
            st.rules[1][i].value.name = st.rules[1][j].value.name => i = j
ImportDone == sret.op = "importData" /\ sret.data.rules # <<>>
Reported(kind, name) ==
    \E k \in 1..Len(sret.value.errors) : sret.value.errors[k] = ImportError(kind, name)

\* the rules of the bundle that are skipped for their name: named as a rule
\* stored before the call, or as a rule of the bundle accepted before them
RECURSIVE DuplicatePositions(_, _, _)
DuplicatePositions(bundle, i, names) ==
    IF i > Len(bundle) THEN {}
    ELSE IF bundle[i].name \in names
         THEN {i} \cup DuplicatePositions(bundle, i + 1, names)
         ELSE DuplicatePositions(bundle, i + 1,
                                 IF isValidRule(bundle[i]) THEN names \cup {bundle[i].name} ELSE names)

\* C13: every rule of the bundle named as a rule stored before the import,
\* or as a rule of the bundle accepted before it, is reported as 'Duplicate
\* rule name' and is not among the rules written; importedRules and
\* skippedRules add up to the size of the bundle, skippedRules counting at
\* least the duplicates; the names in the store are distinct afterwards if
\* they were before.
C13_AsStated ==
    ImportDone =>
        LET bundle == sret.data.rules[1]
            dups   == DuplicatePositions(bundle, 1, StoredNames(sret.before))
        IN  /\ \A i \in dups : Reported("Duplicate rule name: ", bundle[i].name)
            /\ sret.value.skippedRules >= Cardinality(dups)
            /\ sret.value.importedRules <= Len(bundle) - Cardinality(dups)
            /\ sret.value.importedRules + sret.value.skippedRules = Len(bundle)
            /\ UniqueNames(sret.before) => UniqueNames(store)

----------------------------------------------------------------------------
(* convertToDeclarativeRules and needsWebRequestFallback                    *)

\* the characters of the rule ids of the model
IdText ==
    [id \in {"r0", "r1", "r2", "r3", "r4", "r5", "n1", "n2", "n3", "n4", "7", "8"} |->
        CASE id = "7" -> <<"7">>
          [] id = "8" -> <<"8">>
          [] id \in {"n1", "n2", "n3", "n4"} -> <<"r", "u", "l", "e", "-">>
          [] OTHER -> <<"r">>]

\* parseInt(text): <<>> for NaN, <<n>> for the number its leading digits spell
RECURSIVE LeadingDigits(_)
LeadingDigits(text) ==
    IF text = <<>> \/ Head(text) \notin DigitChars THEN <<>>
    ELSE <<Head(text)>> \o LeadingDigits(Tail(text))
parseInt(text) ==
    IF LeadingDigits(text) = <<>> THEN <<>> ELSE <<ParseInt(LeadingDigits(text))>>

\* Math.floor(Math.random() * 1000000): the values the model draws
RandomIds == {1, 2}

\* parseInt(rule.id) || random
NativeId(id, random) ==
    LET n == parseInt(IdText[id])
    IN  IF n = <<>> \/ n[1] = 0 THEN random ELSE n[1]

\* typeof rule.urlPattern === 'string' ? rule.urlPattern : rule.urlPattern.source
UrlFilter(pattern) ==
    IF pattern.kind = "string" THEN pattern.src ELSE RegExpSource(pattern.src)

\* action.requestHeaders pushed one by one: the list, empty where the field is undefined
HeaderInfos(ops) == IF ops = <<>> THEN <<>> ELSE ops[1]

\* convertHeaderRule(rule), random being the number Math.random gives
convertHeaderRule(r, random) ==
    [id |-> NativeId(r.id, random), priority |-> r.priority,
     action |-> [type |-> "modifyHeaders",
                 requestHeaders |-> HeaderInfos(r.action.requestHeaders),
                 responseHeaders |-> HeaderInfos(r.action.responseHeaders)],
     urlFilter |-> UrlFilter(r.urlPattern)]

\* convertRedirectRule(rule, random)
convertRedirectRule(r, random) ==
    [id |-> NativeId(r.id, random), priority |-> r.priority,
     action |-> [type |-> "redirect", url |-> r.action.destination],
     urlFilter |-> UrlFilter(r.urlPattern)]

\* (mutant: disabled rules are converted too)
RECURSIVE convertToDeclarativeRulesMut(_, _)
convertToDeclarativeRulesMut(rs, randoms) ==
    IF rs = <<>> THEN <<>>
    ELSE LET r == Head(rs) IN
         (IF r.action.type = "modifyHeaders" THEN <<convertHeaderRule(r, Head(randoms))>>
          ELSE IF r.action.type = "redirect" THEN <<convertRedirectRule(r, Head(randoms))>>
          ELSE <<>>)
         \o convertToDeclarativeRulesMut(Tail(rs), Tail(randoms))

\* convertToDeclarativeRules(rules), randoms[i] being the number Math.random
\* gives where rule i asks for one
RECURSIVE convertToDeclarativeRules(_, _)
convertToDeclarativeRules(rs, randoms) ==
    IF rs = <<>> THEN <<>>
    ELSE LET r == Head(rs) IN
         (IF ~r.enabled THEN <<>>
          ELSE IF r.action.type = "modifyHeaders" THEN <<convertHeaderRule(r, Head(randoms))>>
          ELSE IF r.action.type = "redirect" THEN <<convertRedirectRule(r, Head(randoms))>>
          ELSE <<>>)
         \o convertToDeclarativeRules(Tail(rs), Tail(randoms))

\* needsWebRequestFallback(), activeRules being rs
needsWebRequestFallback(rs) ==
    \E i \in 1..Len(rs) :
        rs[i].enabled /\ rs[i].action.type \in {"modifyBody", "mockResponse"}

----------------------------------------------------------------------------
(* StorageManager: config and logs                                          *)
(* The value under the key config is [null, v]: null, or the object v. A   *)
(* config in the program is [alias, own]: the DEFAULT_CONFIG object of the  *)
(* module (alias) or another object, whose fields are own.                  *)

TheDefaults == [alias |-> TRUE, own |-> DEFAULT_CONFIG]
OwnConfig(c) == [alias |-> FALSE, own |-> c]
\* the fields the object has now
Fields(config, defaultsNow) == IF config.alias THEN defaultsNow ELSE config.own

\* loadConfig(), the storage call ending as getOutcome: config || DEFAULT_CONFIG
loadConfig(st, getOutcome) ==
    IF getOutcome # "ok" \/ st.config = <<>> \/ st.config[1].null
    THEN TheDefaults
    ELSE OwnConfig(st.config[1].v)

\* saveConfig(config), fields being the fields of config now
saveConfig(st, fields, time, setOutcome, metaOutcome) ==
    LET quota == "Storage limit reached. Please clear old data to free up space."
        other == "Failed to save configuration. Please try again."
    IN  IF setOutcome # "ok"
        THEN [store |-> st, threw |-> <<SaveFailure(setOutcome, quota, other)>>]
        ELSE LET written == [st EXCEPT !.config = <<[null |-> FALSE, v |-> fields]>>]
             IN  IF metaOutcome # "ok"
                 THEN [store |-> written, threw |-> <<SaveFailure(metaOutcome, quota, other)>>]
                 ELSE [store |-> [written EXCEPT !.metadata = <<Metadata(time)>>],
                       threw |-> <<>>]

\* logs.map(log => ({ ...log, timestamp: log.timestamp.toISOString() }))
SerializeLogs(entries) ==
    [i \in 1..Len(entries) |-> [entries[i] EXCEPT !.timestamp = IsoOf(@)]]

\* saveLogs(logs): the read of the config ending as getOutcome, the writes
\* of the try block as setOutcome and metaOutcome, the write of the catch
\* block as retryOutcome. threw is <<>>, <<the ExtensionError>> or, where
\* the write of the catch block rejects, <<its error>>; written is the
\* list the catch block has written, <<>> where it has written none
saveLogs(st, defaultsNow, entries, time, getOutcome, setOutcome, metaOutcome, retryOutcome) ==
    LET config  == Fields(loadConfig(st, getOutcome), defaultsNow)
        limited == Slice(entries, 0 - config.maxLogEntries)
        first   == IF setOutcome = "ok" THEN [st EXCEPT !.logs = <<SerializeLogs(limited)>>] ELSE st
        failure == IF setOutcome # "ok" THEN setOutcome ELSE metaOutcome
    IN  IF failure = "ok"
        THEN [store |-> [first EXCEPT !.metadata = <<Metadata(time)>>],
              threw |-> <<>>, retried |-> <<>>]
        ELSE IF isQuotaExceededError(failure)
        THEN LET reduced == Slice(entries, 0 - (Len(entries) \div 2))
             IN  IF retryOutcome # "ok"
                 THEN [store |-> first, threw |-> <<[message |-> retryOutcome]>>,
                       retried |-> <<reduced>>]
                 ELSE [store |-> [first EXCEPT !.logs = <<SerializeLogs(reduced)>>],
                       threw |-> <<ExtensionError("Storage quota exceeded",
                                      "Storage limit reached. Logs have been automatically reduced. Consider clearing old logs.")>>,
                       retried |-> <<reduced>>]
        ELSE [store |-> first,
              threw |-> <<ExtensionError(failure, "Failed to save logs. Please try again.")>>,
              retried |-> <<>>]

\* storageManager.loadConfig()
LoadConfigCall ==
    /\ tasks = <<>>
    /\ sret.op # "loadConfig"
    /\ \E getOutcome \in StorageOutcomes :
          sret' = [op |-> "loadConfig", outcome |-> getOutcome, stored |-> store.config,
                   config |-> loadConfig(store, getOutcome),
                   value |-> Fields(loadConfig(store, getOutcome), defaults)]
    /\ UNCHANGED <<store, defaults, engineVars, loggerVars, batchVars, workerVars>>

\* storageManager.saveLogs(logs)
SaveLogsCall(lists) ==
    /\ sret.op # "saveLogs"
    /\ \E entries \in lists, getOutcome \in StorageOutcomes, setOutcome \in StorageOutcomes,
          metaOutcome \in StorageOutcomes, retryOutcome \in StorageOutcomes :
          \E after \in {saveLogs(store, defaults, entries, now, getOutcome, setOutcome,
                                 metaOutcome, retryOutcome)} :
             /\ store' = after.store
             /\ sret' = [op |-> "saveLogs", logs |-> entries, before |-> store,
                         first |-> (IF setOutcome # "ok" THEN setOutcome ELSE metaOutcome),
                         retry |-> retryOutcome, retried |-> after.retried, threw |-> after.threw]
    /\ UNCHANGED <<defaults, engineVars, loggerVars, batchVars, workerVars>>

----------------------------------------------------------------------------
(* The service worker: handleMessage                                        *)
(* A handler runs from one await of a chrome call to the next in one step.  *)
(* A chrome call takes effect when it is made, chrome serving the calls in  *)
(* the order they were made; the handler goes on in a later step.           *)
(* tasks[i] = [type, pc, subject, ...] is a handler in flight: the message  *)
(* type, the await it stands at, the id of the rule it is about, and what   *)
(* the handler holds in its local variables while it needs them.            *)

Config == Fields(currentConfig, defaults)
NativeIds(natives) == {natives[i].id : i \in 1..Len(natives)}
Without(seq, i) == SubSeq(seq, 1, i - 1) \o SubSeq(seq, i + 1, Len(seq))

\* the response sent; changed tells whether the step that sent it has
\* changed activeRules
Reply(type, success, subject, result) ==
    [type |-> type, success |-> success, subject |-> subject, result |-> result,
     changed |-> (activeRules' # activeRules)]

\* the handler returns: the response is sent and the handler is in flight no more
Return(i, success, result) ==
    /\ reply' = Reply(tasks[i].type, success, tasks[i].subject, result)
    /\ tasks' = Without(tasks, i)

\* a handler that returns before its first await
ReturnAtOnce(type, success, subject, result) ==
    /\ reply' = Reply(type, success, subject, result)
    /\ UNCHANGED tasks

\* a handler in flight, standing at the await pc
Task(type, pc, subject) ==
    [type |-> type, pc |-> pc, subject |-> subject,
     result |-> "", bundle |-> <<>>, existing |-> <<>>, loaded |-> <<>>,
     pausedBranch |-> FALSE, removeRuleIds |-> {}, addRules |-> <<>>]

\* a handler that has reached its first await
Await(type, pc, subject) ==
    /\ tasks' = Append(tasks, Task(type, pc, subject))
    /\ UNCHANGED reply

\* setupWebRequestListeners(): the listeners are added once more
setupWebRequestListeners(count, rs, config) ==
    IF ~needsWebRequestFallback(rs) \/ ~config.enableHTTPS THEN count ELSE count + 1

\* updateDeclarativeRules() up to the await of getDynamicRules(): the branch
\* is taken and the rules are converted from activeRules as they are now
Declared(task, rs, randoms) ==
    [task EXCEPT !.pc = "install",
                 !.pausedBranch = Config.globalPaused,
                 !.removeRuleIds = {d.id : d \in dynamicRules},
                 !.addRules = IF Config.globalPaused THEN <<>>
                              ELSE convertToDeclarativeRules(rs, randoms)]
DeclareStep(i) ==
    /\ tasks[i].pc = "declare"
    /\ \E randoms \in [1..Len(activeRules) -> RandomIds] :
          tasks' = [tasks EXCEPT ![i] = Declared(@, activeRules, randoms)]
    /\ UNCHANGED <<activeRules, currentConfig, dynamicRules, listeners, reply, created, sent, logPersistTimer>>
    /\ UNCHANGED <<engineVars, loggerVars, batchVars, storageVars>>

\* chrome.declarativeNetRequest.updateDynamicRules({removeRuleIds, addRules}):
\* rejected, nothing being changed, where two rules would have the same id
\* or an id is below 1
updateDynamicRules(installed, removeRuleIds, addRules) ==
    LET remaining == {d \in installed : d.id \notin removeRuleIds}
        added     == {addRules[k] : k \in 1..Len(addRules)}
    IN  IF /\ \A k, l \in 1..Len(addRules) : addRules[k].id = addRules[l].id => k = l
           /\ \A k \in 1..Len(addRules) : addRules[k].id >= 1
           /\ \A d \in remaining : d.id \notin NativeIds(addRules)
        THEN remaining \cup added
        ELSE installed

\* updateDeclarativeRules() from the await of getDynamicRules() to the await
\* of updateDynamicRules(); an error is logged and goes no further
InstallStep(i) ==
    /\ tasks[i].pc = "install"
    /\ dynamicRules' = IF tasks[i].pausedBranch /\ tasks[i].removeRuleIds = {}
                       THEN dynamicRules
                       ELSE updateDynamicRules(dynamicRules, tasks[i].removeRuleIds, tasks[i].addRules)
    /\ tasks' = [tasks EXCEPT ![i].pc = "finish", ![i].removeRuleIds = {}, ![i].addRules = <<>>]
    /\ UNCHANGED <<activeRules, currentConfig, listeners, reply, created, sent, logPersistTimer>>
    /\ UNCHANGED <<engineVars, loggerVars, batchVars, storageVars>>

\* the handler after updateDeclarativeRules(): the listeners, the response
FinishStep(i) ==
    /\ tasks[i].pc = "finish"
    /\ listeners' = IF tasks[i].type \in {"createRule", "updateRule", "importData"}
                    THEN setupWebRequestListeners(listeners, activeRules, Config)
                    ELSE listeners
    /\ UNCHANGED <<activeRules, currentConfig, dynamicRules, created, sent, logPersistTimer>>
    /\ Return(i, TRUE, tasks[i].result)
    /\ UNCHANGED <<engineVars, loggerVars, batchVars, storageVars>>

\* a message comes and its handler starts
MessageComes ==
    /\ sent < MaxMessages
    /\ sent' = sent + 1
    /\ UNCHANGED logPersistTimer

\* what no handler touches but those of the logs
EngineAndBatchUnchanged == UNCHANGED <<engineVars, batchVars>>

\* message toggleGlobalPause: the field of the currentConfig object is
\* assigned, saveConfig is awaited
ToggleGlobalPauseStart(flags) ==
    /\ Len(tasks) < MaxTasks
    /\ MessageComes
    /\ \E paused \in flags, setOutcome \in StorageOutcomes, metaOutcome \in StorageOutcomes :
          /\ IF currentConfig.alias
             THEN /\ defaults' = [defaults EXCEPT !.globalPaused = paused]
                  /\ UNCHANGED currentConfig
             ELSE /\ currentConfig' = [currentConfig EXCEPT !.own.globalPaused = paused]
                  /\ UNCHANGED defaults
          /\ \E after \in {saveConfig(store, Fields(currentConfig', defaults'), now,
                                      setOutcome, metaOutcome)} :
                /\ store' = after.store
                /\ UNCHANGED activeRules
                /\ IF after.threw # <<>>
                   THEN ReturnAtOnce("toggleGlobalPause", FALSE,
                                     IF paused THEN "pause" ELSE "resume", "storage")
                   ELSE Await("toggleGlobalPause", "declare", IF paused THEN "pause" ELSE "resume")
    /\ UNCHANGED <<sret, dynamicRules, listeners, created>>
    /\ UNCHANGED loggerVars
    /\ EngineAndBatchUnchanged

\* { ...currentConfig, ...message.payload.config }
MergeConfig(fields, updates) ==
    [k \in DOMAIN fields |-> IF k \in DOMAIN updates THEN updates[k] ELSE fields[k]]

\* message updateConfig: currentConfig becomes a new object, saveConfig is awaited
UpdateConfigStart(updateSet) ==
    /\ Len(tasks) < MaxTasks
    /\ MessageComes
    /\ \E updates \in updateSet, setOutcome \in StorageOutcomes, metaOutcome \in StorageOutcomes :
          /\ currentConfig' = OwnConfig(MergeConfig(Config, updates))
          /\ \E after \in {saveConfig(store, currentConfig'.own, now, setOutcome, metaOutcome)} :
                /\ store' = after.store
                /\ UNCHANGED activeRules
                /\ IF after.threw # <<>>
                   THEN ReturnAtOnce("updateConfig", FALSE, "", "storage")
                   ELSE Await("updateConfig",
                              IF DOMAIN updates \cap {"logRetentionDays", "maxLogEntries"} # {}
                              THEN "retention" ELSE "respond", "")
    /\ UNCHANGED <<defaults, sret, dynamicRules, listeners, created>>
    /\ UNCHANGED loggerVars
    /\ EngineAndBatchUnchanged

\* updateConfig after saveConfig: applyRetentionPolicy, saveLogs, the response
UpdateConfigStep(i) ==
    /\ tasks[i].type = "updateConfig"
    /\ tasks[i].pc \in {"retention", "respond"}
    /\ UNCHANGED <<activeRules, currentConfig, defaults, sret, dynamicRules, listeners, created, sent, logPersistTimer>>
    /\ IF tasks[i].pc = "respond"
       THEN /\ Return(i, TRUE, "")
            /\ UNCHANGED <<store, loggerVars>>
       ELSE \E getOutcome \in StorageOutcomes, setOutcome \in StorageOutcomes,
               metaOutcome \in StorageOutcomes, retryOutcome \in StorageOutcomes :
               /\ logs' = applyRetentionPolicy(logs, now, Config.logRetentionDays, Config.maxLogEntries)
               /\ \E after \in {saveLogs(store, defaults, logs', now, getOutcome, setOutcome,
                                         metaOutcome, retryOutcome)} :
                     /\ store' = after.store
                     /\ Return(i, after.threw = <<>>, IF after.threw = <<>> THEN "" ELSE "storage")
               /\ UNCHANGED <<logIdCounter, now, ret, last>>
    /\ EngineAndBatchUnchanged

----------------------------------------------------------------------------
(* loadConfig on a worker that has run initialize(): the store holding no   *)
(* config, null, a config, or an object that is no config; the messages     *)
(* toggleGlobalPause and updateConfig handled in between.                   *)

DarkConfig == [DEFAULT_CONFIG EXCEPT !.theme = "dark"]
NoConfigObject == [DEFAULT_CONFIG EXCEPT !.theme = "?", !.maxLogEntries = 0 - 1]
ConfigStores ==
    {EmptyStore,
     [EmptyStore EXCEPT !.config = <<[null |-> TRUE, v |-> DEFAULT_CONFIG]>>],
     [EmptyStore EXCEPT !.config = <<[null |-> FALSE, v |-> DarkConfig]>>],
     [EmptyStore EXCEPT !.config = <<[null |-> FALSE, v |-> NoConfigObject]>>]}
ConfigUpdates == {[theme |-> "dark"], [logRetentionDays |-> 7]}

\* the worker after initialize() on a store without rules and logs
InitConfig ==
    /\ EngineIdle
    /\ LoggerAt(StartTime)
    /\ BatchIdle
    /\ store \in ConfigStores
    /\ defaults = DEFAULT_CONFIG
    /\ sret = [op |-> "none"]
    /\ activeRules = <<>>
    /\ currentConfig = loadConfig(store, "ok")
    /\ dynamicRules = {}
    /\ listeners = 0
    /\ tasks = <<>>
    /\ reply = [type |-> "none"]
    /\ created = 0
    /\ sent = 0
    /\ logPersistTimer = FALSE

WorkerStep == \E i \in 1..Len(tasks) : DeclareStep(i) \/ InstallStep(i) \/ FinishStep(i)
NextConfig ==
    \/ ToggleGlobalPauseStart(BOOLEAN)
    \/ UpdateConfigStart(ConfigUpdates)
    \/ \E i \in 1..Len(tasks) : UpdateConfigStep(i)
    \/ WorkerStep
    \/ LoadConfigCall
SpecConfig == InitConfig /\ [][NextConfig]_vars

IsConfig(c) == c.theme \in {"light", "dark", "auto"} /\ c.maxLogEntries >= 0

\* C14: loadConfig returns the documented defaults whenever no config is
\* stored, the stored value is null or no config, or the read fails,
\* whatever messages were handled before.
C14_AsStated ==
    (/\ sret.op = "loadConfig"
     /\ \/ sret.outcome # "ok"
        \/ sret.stored = <<>>
        \/ sret.stored[1].null
        \/ ~IsConfig(sret.stored[1].v))
       => sret.value = DEFAULT_CONFIG

----------------------------------------------------------------------------
(* saveLogs on batches of zero to MaxLogs entries, with and without a       *)
(* stored config that limits the log to two entries, every storage call     *)
(* resolving, rejecting for the quota or rejecting otherwise.               *)

SmallLogConfig == [DEFAULT_CONFIG EXCEPT !.maxLogEntries = 2]
SaveLogsStores ==
    {EmptyStore, [EmptyStore EXCEPT !.config = <<[null |-> FALSE, v |-> SmallLogConfig]>>]}

InitSaveLogs ==
    /\ EngineIdle
    /\ LoggerAt(StartTime)
    /\ BatchIdle
    /\ WorkerIdle
    /\ store \in SaveLogsStores
    /\ defaults = DEFAULT_CONFIG
    /\ sret = [op |-> "none"]
NextSaveLogs == SaveLogsCall(StoredLists(LogRequests))
SpecSaveLogs == InitSaveLogs /\ [][NextSaveLogs]_vars

\* the most recent half of a batch
RecentHalf(entries) == SubSeq(entries, Len(entries) - (Len(entries) \div 2) + 1, Len(entries))
QuotaReported == sret.op = "saveLogs" /\ sret.first = "quota"

\* C15: when a write of saveLogs reports the quota exceeded, saveLogs writes
\* once more, the most recent half of the batch; where that write succeeds
\* saveLogs reports no error, and the error it reports otherwise is a
\* recoverable storage error
C15_AsStated ==
    QuotaReported =>
        /\ sret.retried = <<RecentHalf(sret.logs)>>
        /\ (sret.retry = "ok" => sret.threw = <<>>)
        /\ (sret.threw # <<>> =>
               /\ sret.retry # "ok"
               /\ "recoverable" \in DOMAIN sret.threw[1]
               /\ sret.threw[1].recoverable)

----------------------------------------------------------------------------
(* convertToDeclarativeRules and needsWebRequestFallback on lists of at     *)
(* most MaxRules rules of the four kinds of action, enabled and disabled,   *)
(* with ids that spell a number and ids that do not.                        *)

\* ruleEngine.convertToDeclarativeRules(rules) and needsWebRequestFallback()
\* on the same rules
ConvertCall ==
    /\ produced = <<>>
    /\ \E randoms \in [1..Len(rules) -> RandomIds] :
          produced' = <<[before |-> rules,
                         value |-> convertToDeclarativeRules(rules, randoms),
                         fallback |-> needsWebRequestFallback(rules)]>>
    /\ ecall' = "convertToDeclarativeRules"
    /\ UNCHANGED <<rules, rule, request, modified, evals, loggerVars, storageVars, workerVars>>

ConvertActions ==
    {[type |-> "modifyHeaders",
      requestHeaders |-> <<<<[operation |-> "set", header |-> <<"X">>, value |-> <<<<"a">>>>]>>>>,
      responseHeaders |-> <<>>],
     [type |-> "redirect", destination |-> UrlB, regexSubstitution |-> <<>>],
     [type |-> "modifyBody", target |-> "request", contentType |-> "json",
      modification |-> [type |-> "jsonPath", path |-> <<"a">>, value |-> JNum(2)]],
     MockAction}
ConvertId(action) ==
    CASE action.type = "modifyHeaders" -> "r1"
      [] action.type = "redirect" -> "7"
      [] action.type = "modifyBody" -> "8"
      [] OTHER -> "r0"
ConvertRules ==
    {MkRule(ConvertId(a), e, p, WildcardPattern(<<"*">>), a) :
        a \in ConvertActions, e \in BOOLEAN, p \in {1, 2}}

InitConvert ==
    /\ EngineIdle
    /\ LoggerIdle
    /\ StorageIdle
    /\ WorkerIdle
    /\ rules \in RuleLists(ConvertRules)
    /\ produced = <<>>
NextConvert == ConvertCall
SpecConvert == InitConvert /\ [][NextConvert]_vars

NativeKinds == {"modifyHeaders", "redirect"}
FallbackKinds == {"modifyBody", "mockResponse"}
IsConvertible(r) == r.enabled /\ r.action.type \in NativeKinds
ConvertDone == ecall = "convertToDeclarativeRules" /\ produced # <<>>

\* C18: convertToDeclarativeRules yields one native rule for each enabled
\* rule that modifies headers or redirects, in the order of the rules, of
\* the rule's priority and kind, and none for a rule that modifies a body,
\* mocks a response or is disabled; needsWebRequestFallback answers true
\* exactly where an enabled rule modifies a body or mocks a response
C18_Conversion ==
    ConvertDone =>
        LET rs == produced[1].before
            natives == produced[1].value
            sources == SelectSeq(rs, IsConvertible)
        IN  /\ Len(natives) = Len(sources)
            /\ \A k \in 1..Len(natives) :
                  /\ natives[k].priority = sources[k].priority
                  /\ natives[k].action.type = sources[k].action.type
                  /\ natives[k].urlFilter = sources[k].urlPattern.src
            /\ produced[1].fallback =
                  (\E i \in 1..Len(rs) : rs[i].enabled /\ rs[i].action.type \in FallbackKinds)

\* three rules, one converted, one disabled, one for the fallback path
C18_Witness ==
    /\ ConvertDone
    /\ Len(produced[1].before) = 3
    /\ Len(produced[1].value) = 1
    /\ produced[1].fallback
    /\ \E i \in 1..3 : ~produced[1].before[i].enabled
                          /\ produced[1].before[i].action.type \in NativeKinds

----------------------------------------------------------------------------
(* JSON path writes through applyRule: bodies with an array and with a      *)
(* nested object; paths to a member, to a new member, to an element, past   *)
(* the end of an array, to a named property of an array and through the     *)
(* inherited constructor.                                                   *)

JsonArrayBody == <<"{","\"","a","\"",":","[","1","]",",","\"","b","\"",":","2","}">>
JsonNestedBody == <<"{","\"","a","\"",":","{","\"","b","\"",":","1","}",",","\"","c","\"",":","2","}">>
JsonPaths ==
    {<<"b">>, <<"x">>, <<"a">>, <<"a",".","b">>, <<"a","[","0","]">>, <<"a","[","2","]">>,
     <<"c","o","n","s","t","r","u","c","t","o","r",".","x">>}
JsonPathValues == {JNum(5), JStr(<<"v">>)}
JsonPathRules ==
    {MkRule("r3", TRUE, 1, WildcardPattern(<<"*">>),
            [type |-> "modifyBody", target |-> "request", contentType |-> "json",
             modification |-> [type |-> "jsonPath", path |-> path, value |-> val]])
       : path \in JsonPaths, val \in JsonPathValues}
JsonPathRequests ==
    {MkRequest(UrlAB, "POST", h, <<StringOf(b)>>) :
        h \in {NoHeaders, (<<"X">> :> <<"b">>)}, b \in {JsonA1, JsonArrayBody, JsonNestedBody}}

InitJsonPath == EngineStart(JsonPathRules, JsonPathRequests)
NextJsonPath == ApplyRuleCall
SpecJsonPath == InitJsonPath /\ [][NextJsonPath]_vars

\* the value a JSON value holds at a path of keys, JUndef where it holds none
RECURSIVE ValueAt(_, _)
ValueAt(x, keys) ==
    IF keys = <<>> THEN x
    ELSE CASE x.t = "obj" ->
                IF HasMember(x.ms, Head(keys))
                THEN ValueAt(x.ms[MemberIndex(x.ms, Head(keys))][2], Tail(keys))
                ELSE JUndef
           [] x.t = "arr" ->
                IF IsIndexKey(Head(keys)) /\ ParseInt(Head(keys)) < Len(x.es)
                THEN ValueAt(x.es[ParseInt(Head(keys)) + 1], Tail(keys))
                ELSE JUndef
           [] OTHER -> JUndef

IsPrefix(p, q) == Len(p) <= Len(q) /\ SubSeq(q, 1, Len(p)) = p
FrameKeys == {<<"a">>, <<"b">>, <<"c">>, <<"x">>, <<"0">>, <<"1">>, <<"2">>} \cup InheritedKeys
FramePaths == UNION {[1..n -> FrameKeys] : n \in 1..2}
PathWritten == ApplyDone /\ TraceHas("Modified JSON path: ")

\* C19: after a successful JSON-path write the body holds the supplied value
\* at the write path, and at every path that neither leads to the write path
\* nor lies below it the value it held before
C19_AsStated ==
    PathWritten =>
        LET before == JSONParse(request.body[1].v).v
            after  == JSONParse(Outcome.body[1].v).v
            target == PathKeys(Split(rule.action.modification.path, "."))
        IN  /\ ValueAt(after, target) = rule.action.modification.value
            /\ \A p \in FramePaths :
                  ~IsPrefix(p, target) /\ ~IsPrefix(target, p)
                     => ValueAt(after, p) = ValueAt(before, p)

----------------------------------------------------------------------------
(* The failure path of applyBodyModification, under SpecApply.              *)

\* the keys of the path before the last: the segments the traversal reads
Intermediate(path) ==
    LET keys == PathKeys(Split(path, ".")) IN SubSeq(keys, 1, Len(keys) - 1)

\* the body is a string or buffer that is no JSON text; the replacement is a
\* string that is no JSON text; the body holds nothing at a segment the
\* path goes through
BodyInvalid == ~JSONParse(request.body[1].v).ok
ReplacementInvalid ==
    /\ rule.action.modification.type = "replace"
    /\ rule.action.modification.content.t = "string"
    /\ ~JSONParse(rule.action.modification.content.v).ok
SegmentMissing ==
    /\ rule.action.modification.type = "jsonPath"
    /\ ~BodyInvalid
    /\ \E n \in 1..Len(Intermediate(rule.action.modification.path)) :
          ValueAt(JSONParse(request.body[1].v).v,
                  SubSeq(Intermediate(rule.action.modification.path), 1, n)) = JUndef
JsonWriteFails ==
    /\ ApplyDone
    /\ rule.action.type = "modifyBody"
    /\ rule.action.contentType = "json"
    /\ ~NoBody(Fresh)
    /\ (BodyInvalid \/ ReplacementInvalid \/ SegmentMissing)

\* C20: where the body is no JSON, the replacement is no JSON or the path
\* goes through a segment the body does not hold, applyBodyModification
\* returns the exchange with the body and the headers it had, the trace
\* holding the entry 'Error modifying body: ' and no entry of success
C20_AsStated ==
    JsonWriteFails =>
        /\ ~modified[1].threw
        /\ Outcome.body = request.body
        /\ Outcome.headers = request.headers
        /\ TraceHas("Error modifying body: ")
        /\ ~TraceHas("Modified JSON path: ")
        /\ ~TraceHas("Replaced entire JSON body")

----------------------------------------------------------------------------
(* The service worker: the messages about rules.  A handler changes         *)
(* activeRules and calls saveRules before its first await; it goes on with  *)
(* updateDeclarativeRules where saveRules has not thrown, and answers       *)
(* success: false from the catch of handleMessage where it has.             *)

\* `rule-${Date.now()}-${random}`: the id of the next rule created
NewRuleId == [n \in 0..3 |-> CASE n = 0 -> "n1" [] n = 1 -> "n2" [] n = 2 -> "n3" [] OTHER -> "n4"]

RuleNames(rs) == {rs[i].name : i \in 1..Len(rs)}
\* activeRules.findIndex(r => r.id === id): 0 where there is none
FindIndex(rs, id) ==
    IF \E i \in 1..Len(rs) : rs[i].id = id
    THEN CHOOSE i \in 1..Len(rs) : rs[i].id = id /\ \A j \in 1..(i - 1) : rs[j].id # id
    ELSE 0

\* the handler from saveRules(activeRules) on: the store written, the handler
\* in flight or answered from the catch
SaveActiveRules(type, subject, setOutcome, metaOutcome) ==
    \E after \in {saveRules(store, activeRules', now, setOutcome, metaOutcome)} :
       /\ store' = after.store
       /\ IF after.threw # <<>>
          THEN ReturnAtOnce(type, FALSE, subject, "storage")
          ELSE Await(type, "declare", subject)

RuleMessageFrame ==
    /\ UNCHANGED <<currentConfig, defaults, sret, dynamicRules, listeners>>
    /\ UNCHANGED loggerVars
    /\ EngineAndBatchUnchanged

\* message createRule
CreateRuleStart(payloads) ==
    /\ Len(tasks) < MaxTasks
    /\ MessageComes
    /\ created < MaxCreated
    /\ \E payload \in payloads, setOutcome \in StorageOutcomes, metaOutcome \in StorageOutcomes :
          IF payload.name \in RuleNames(activeRules)
          THEN /\ UNCHANGED <<activeRules, store, created>>
               /\ ReturnAtOnce("createRule", FALSE, "", "exists")
          ELSE /\ activeRules' = Append(activeRules,
                                   StoredRule(NewRuleId[created], payload.name, payload.enabled,
                                              payload.priority, payload.urlPattern, payload.action,
                                              DateOf(now), DateOf(now)))
               /\ created' = created + 1
               /\ SaveActiveRules("createRule", NewRuleId[created], setOutcome, metaOutcome)
    /\ RuleMessageFrame

\* { ...activeRules[ruleIndex], ...updates, modifiedAt: new Date() }
UpdatedRule(r, updates, time) ==
    [k \in DOMAIN r |-> IF k = "modifiedAt" THEN DateOf(time)
                        ELSE IF k \in DOMAIN updates THEN updates[k] ELSE r[k]]

\* message updateRule; the names are compared where updates.name is truthy
UpdateRuleStart(ids, updateSet) ==
    /\ Len(tasks) < MaxTasks
    /\ MessageComes
    /\ \E id \in ids, updates \in updateSet,
          setOutcome \in StorageOutcomes, metaOutcome \in StorageOutcomes :
          \E ruleIndex \in {FindIndex(activeRules, id)} :
             IF ruleIndex = 0
             THEN /\ UNCHANGED <<activeRules, store>>
                  /\ ReturnAtOnce("updateRule", FALSE, id, "notfound")
             ELSE IF /\ "name" \in DOMAIN updates
                     /\ updates.name # ""
                     /\ \E i \in 1..Len(activeRules) :
                           activeRules[i].id # id /\ activeRules[i].name = updates.name
             THEN /\ UNCHANGED <<activeRules, store>>
                  /\ ReturnAtOnce("updateRule", FALSE, id, "exists")
             ELSE /\ activeRules' = [activeRules EXCEPT ![ruleIndex] = UpdatedRule(@, updates, now)]
                  /\ SaveActiveRules("updateRule", id, setOutcome, metaOutcome)
    /\ UNCHANGED created
    /\ RuleMessageFrame

\* message deleteRule
DeleteRuleStart(ids) ==
    /\ Len(tasks) < MaxTasks
    /\ MessageComes
    /\ \E id \in ids, setOutcome \in StorageOutcomes, metaOutcome \in StorageOutcomes :
          \E ruleIndex \in {FindIndex(activeRules, id)} :
             IF ruleIndex = 0
             THEN /\ UNCHANGED <<activeRules, store>>
                  /\ ReturnAtOnce("deleteRule", FALSE, id, "notfound")
             ELSE /\ activeRules' = Without(activeRules, ruleIndex)
                  /\ SaveActiveRules("deleteRule", id, setOutcome, metaOutcome)
    /\ UNCHANGED created
    /\ RuleMessageFrame

\* message toggleRule
ToggleRuleStart(ids, flags) ==
    /\ Len(tasks) < MaxTasks
    /\ MessageComes
    /\ \E id \in ids, enabled \in flags,
          setOutcome \in StorageOutcomes, metaOutcome \in StorageOutcomes :
          \E ruleIndex \in {FindIndex(activeRules, id)} :
             IF ruleIndex = 0
             THEN /\ UNCHANGED <<activeRules, store>>
                  /\ ReturnAtOnce("toggleRule", FALSE, id, "notfound")
             ELSE /\ activeRules' = [activeRules EXCEPT ![ruleIndex].enabled = enabled,
                                                         ![ruleIndex].modifiedAt = DateOf(now)]
                  /\ SaveActiveRules("toggleRule", id, setOutcome, metaOutcome)
    /\ UNCHANGED created
    /\ RuleMessageFrame

\* message importData: importData up to its await of loadRules(); where
\* data.rules is no array importData returns at once and the handler
\* stands at its own loadRules()
ImportDataStart(bundles) ==
    /\ Len(tasks) < MaxTasks
    /\ MessageComes
    /\ \E data \in bundles, getOutcome \in StorageOutcomes :
          tasks' = Append(tasks,
                      IF data.rules = <<>>
                      THEN [Task("importData", "importAssign", "") EXCEPT
                               !.loaded = loadRules(store, getOutcome),
                               !.result = "invalid"]
                      ELSE [Task("importData", "importSave", "") EXCEPT
                               !.bundle = data.rules[1],
                               !.existing = loadRules(store, getOutcome)])
    /\ UNCHANGED <<activeRules, store, reply, created>>
    /\ RuleMessageFrame

\* importData after loadRules(): the loop and saveRules; where nothing is
\* to be saved importData returns and the handler stands at its loadRules()
ImportSaveStep(i) ==
    /\ tasks[i].pc = "importSave"
    /\ \E getOutcome \in StorageOutcomes, setOutcome \in StorageOutcomes,
          metaOutcome \in StorageOutcomes :
          \E looped \in {ImportLoop(tasks[i].bundle, RuleNames(tasks[i].existing), <<>>,
                                    [success |-> TRUE, importedRules |-> 0, skippedRules |-> 0,
                                     errors |-> <<>>])} :
             IF looped.rulesToImport = <<>>
             THEN /\ tasks' = [tasks EXCEPT ![i].pc = "importAssign",
                                            ![i].bundle = <<>>,
                                            ![i].existing = <<>>,
                                            ![i].loaded = loadRules(store, getOutcome),
                                            ![i].result = "skipped"]
                  /\ UNCHANGED store
             ELSE \E saved \in {saveRules(store, tasks[i].existing \o looped.rulesToImport, now,
                                           setOutcome, metaOutcome)} :
                     /\ store' = saved.store
                     /\ tasks' = [tasks EXCEPT ![i].pc = "importLoad",
                                               ![i].bundle = <<>>,
                                               ![i].existing = <<>>,
                                               ![i].result = IF saved.threw # <<>> THEN "failed"
                                                             ELSE "imported"]
    /\ UNCHANGED <<activeRules, reply, created, sent, logPersistTimer>>
    /\ RuleMessageFrame

\* the handler at activeRules = await storageManager.loadRules(): the read is made
ImportLoadStep(i) ==
    /\ tasks[i].pc = "importLoad"
    /\ \E getOutcome \in StorageOutcomes :
          tasks' = [tasks EXCEPT ![i].pc = "importAssign",
                                 ![i].loaded = loadRules(store, getOutcome)]
    /\ UNCHANGED <<activeRules, store, reply, created, sent, logPersistTimer>>
    /\ RuleMessageFrame

\* the read has come: activeRules is assigned and updateDeclarativeRules()
\* runs up to its await
ImportAssignStep(i) ==
    /\ tasks[i].pc = "importAssign"
    /\ activeRules' = tasks[i].loaded
    /\ \E randoms \in [1..Len(activeRules') -> RandomIds] :
          tasks' = [tasks EXCEPT ![i] = Declared([@ EXCEPT !.loaded = <<>>], activeRules', randoms)]
    /\ UNCHANGED <<store, reply, created, sent, logPersistTimer>>
    /\ RuleMessageFrame

ImportStep(i) == ImportSaveStep(i) \/ ImportLoadStep(i) \/ ImportAssignStep(i)

----------------------------------------------------------------------------
(* The messages about rules in every order and interleaving, at most        *)
(* MaxTasks handlers in flight: on a worker that holds no rule, rules named *)
(* '' and 'a' are created, imported, renamed, toggled and deleted.          *)

RulePayloads ==
    {[name |-> n, enabled |-> TRUE, priority |-> 1, urlPattern |-> WildcardPattern(<<"*">>),
      action |-> MockAction] : n \in {"", "a"}}
RuleMessageIds == {"n1", "r5"}
RuleUpdates == {[name |-> ""], [name |-> "a"]}
RuleBundles ==
    {[rules |-> <<>>]}
       \cup {[rules |-> <<<<BundleRule("r4", n, DateOf(DayMs))>>>>] : n \in {"", "a"}}

\* the worker after initialize() on a store of rules
WorkerAt(rs) ==
    /\ store = StoreOf(rs)
    /\ defaults = DEFAULT_CONFIG
    /\ sret = [op |-> "none"]
    /\ activeRules = loadRules(StoreOf(rs), "ok")
    /\ currentConfig = TheDefaults
    /\ dynamicRules = {}
    /\ listeners = 0
    /\ tasks = <<>>
    /\ reply = [type |-> "none"]
    /\ created = 0
    /\ sent = 0
    /\ logPersistTimer = FALSE

InitRules ==
    /\ EngineIdle
    /\ LoggerAt(StartTime)
    /\ BatchIdle
    /\ WorkerAt(<<>>)
NextRules ==
    \/ CreateRuleStart(RulePayloads)
    \/ UpdateRuleStart(RuleMessageIds, RuleUpdates)
    \/ DeleteRuleStart(RuleMessageIds)
    \/ ToggleRuleStart(RuleMessageIds, {FALSE})
    \/ ImportDataStart(RuleBundles)
    \/ \E i \in 1..Len(tasks) : ImportStep(i)
    \/ WorkerStep
SpecRules == InitRules /\ [][NextRules]_vars

DistinctNames(rs) == \A i, j \in 1..Len(rs) : rs[i].name = rs[j].name => i = j
Rejected(type) == reply.type = type /\ ~reply.success /\ reply.result = "exists"
\* C16: no two rules of activeRules and no two stored rules have the same
\* name, whatever messages about rules have been handled and however their
\* handlers interleave; a message turned down for its name has changed no rule
C16_AsStated ==
    /\ DistinctNames(activeRules)
    /\ DistinctNames(loadRules(store, "ok"))
    /\ (Rejected("createRule") \/ Rejected("updateRule")) => ~reply.changed

----------------------------------------------------------------------------
(* The service worker: the webRequest listeners.  The patterns of the rules *)
(* the worker holds in the model are wildcard strings.                      *)

IsFallbackMatch(r, details) ==
    /\ r.enabled
    /\ r.action.type \in {"modifyBody", "mockResponse"}
    /\ evaluateRule(r, [url |-> details.url, method |-> details.method, headers |-> NoHeaders]).result

\* the onBeforeRequest listener on one request: the fields of the logger afterwards
onBeforeRequest(ls, counter, time, details, rs, config) ==
    LET requestInfo == LogRequestInfo(details.url, details.method, NoHeaders, time)
        matchingRules == SelectSeq(rs, LAMBDA r : IsFallbackMatch(r, details))
    IN  IF config.globalPaused
        THEN logRequest(ls, counter, time, requestInfo, <<>>)
        ELSE IF matchingRules = <<>>
        THEN [logs |-> ls, logIdCounter |-> counter]
        ELSE logRequest(ls, counter, time, requestInfo, <<sortByPriority(matchingRules).value[1]>>)

\* the onBeforeSendHeaders listener on one request
onBeforeSendHeaders(ls, counter, time, details, rs, config) ==
    LET requestInfo == LogRequestInfo(details.url, details.method, details.requestHeaders, time)
        matchingRules ==
            SelectSeq(rs, LAMBDA r : r.enabled /\ ~config.globalPaused
                                      /\ evaluateRule(r, requestInfo).result)
    IN  IF startsWith(details.url, HttpsPrefix) /\ matchingRules # <<>>
        THEN logRequest(ls, counter, time, requestInfo, matchingRules)
        ELSE [logs |-> ls, logIdCounter |-> counter]

\* one request seen by the listeners added so far: every onBeforeRequest
\* listener, then every onBeforeSendHeaders listener; logRequest does not
\* throw, so the catch of onBeforeRequest is not entered
RECURSIVE Dispatch(_, _, _, _, _, _)
Dispatch(stage, left, fields, details, rs, config) ==
    IF left = 0 THEN fields
    ELSE Dispatch(stage, left - 1,
                  IF stage = "onBeforeRequest"
                  THEN onBeforeRequest(fields.logs, fields.logIdCounter, now, details, rs, config)
                  ELSE onBeforeSendHeaders(fields.logs, fields.logIdCounter, now, details, rs, config),
                  details, rs, config)

\* the browser makes a request
RequestEvent(requests) ==
    /\ last.op # "request"
    /\ \E details \in requests :
          \E first \in {Dispatch("onBeforeRequest", listeners,
                                  [logs |-> logs, logIdCounter |-> logIdCounter],
                                  details, activeRules, Config)} :
          \E after \in {Dispatch("onBeforeSendHeaders", listeners, first,
                                  details, activeRules, Config)} :
             /\ Len(after.logs) <= MaxLogs
             /\ logs' = after.logs
             /\ logIdCounter' = after.logIdCounter
             /\ last' = [op |-> "request", before |-> logs, details |-> details,
                         paused |-> Config.globalPaused, idle |-> (tasks = <<>>),
                         listeners |-> listeners, installed |-> dynamicRules,
                         first |-> Len(first.logs)]
             /\ logPersistTimer' = (logPersistTimer \/ after.logs # logs)
    /\ UNCHANGED <<now, ret, engineVars, batchVars, storageVars, activeRules, currentConfig,
                   dynamicRules, listeners, tasks, reply, created, sent>>

\* the timer of persistLogsDebounced fires: saveLogs(logger.getAllLogs()),
\* whatever it throws is caught
PersistTimerFires ==
    /\ logPersistTimer
    /\ logPersistTimer' = FALSE
    /\ \E getOutcome \in StorageOutcomes, setOutcome \in StorageOutcomes,
          metaOutcome \in StorageOutcomes, retryOutcome \in StorageOutcomes :
          store' = saveLogs(store, defaults, logs, now, getOutcome, setOutcome,
                            metaOutcome, retryOutcome).store
    /\ UNCHANGED <<defaults, sret, engineVars, loggerVars, batchVars, activeRules, currentConfig,
                   dynamicRules, listeners, tasks, reply, created, sent>>

----------------------------------------------------------------------------
(* Global pause: a worker that has run initialize() on a store holding a   *)
(* config with enableHTTPS and two rules, one that modifies headers and one *)
(* that mocks a response; the pause is toggled, the rules are toggled, and  *)
(* requests are made in between.                                            *)

PauseConfig == [DEFAULT_CONFIG EXCEPT !.enableHTTPS = TRUE]
PauseRules ==
    <<StoredRule("7", "h", TRUE, 2, WildcardPattern(<<"*">>),
                 [type |-> "modifyHeaders",
                  requestHeaders |-> <<<<[operation |-> "set", header |-> <<"X">>, value |-> <<<<"a">>>>]>>>>,
                  responseHeaders |-> <<>>],
                 DateOf(DayMs), DateOf(DayMs)),
      StoredRule("8", "m", TRUE, 1, WildcardPattern(<<"*">>), MockAction, DateOf(DayMs), DateOf(DayMs))>>
PauseStore == [StoreOf(PauseRules) EXCEPT !.config = <<[null |-> FALSE, v |-> PauseConfig]>>]
PauseRequests ==
    {[url |-> u, method |-> "GET", requestHeaders |-> NoHeaders] : u \in {UrlA, UrlS}}

\* the native rules chrome holds after updateDynamicRules adds the conversion of rs
Installed(rs) ==
    {updateDynamicRules({}, {}, convertToDeclarativeRules(rs, randoms)) :
        randoms \in [1..Len(rs) -> RandomIds]}

InitPause ==
    /\ EngineIdle
    /\ LoggerAt(StartTime)
    /\ BatchIdle
    /\ store = PauseStore
    /\ defaults = DEFAULT_CONFIG
    /\ sret = [op |-> "none"]
    /\ activeRules = loadRules(PauseStore, "ok")
    /\ currentConfig = loadConfig(PauseStore, "ok")
    /\ dynamicRules \in Installed(loadRules(PauseStore, "ok"))
    /\ listeners = setupWebRequestListeners(0, loadRules(PauseStore, "ok"), PauseConfig)
    /\ tasks = <<>>
    /\ reply = [type |-> "none"]
    /\ created = 0
    /\ sent = 0
    /\ logPersistTimer = FALSE
NextPause ==
    \/ ToggleGlobalPauseStart(BOOLEAN)
    \/ ToggleRuleStart({"7"}, {FALSE})
    \/ WorkerStep
    \/ RequestEvent(PauseRequests)
    \/ PersistTimerFires
SpecPause == InitPause /\ [][NextPause]_vars

Paused == Config.globalPaused /\ tasks = <<>>
SeenPaused == last.op = "request" /\ last.paused /\ last.idle /\ last.listeners > 0
Resumed ==
    /\ reply.type = "toggleGlobalPause"
    /\ reply.subject = "resume"
    /\ tasks = <<>>
    /\ ~Config.globalPaused

\* C17: while the pause is on and no handler is in flight no native rule is
\* installed; a request the listeners see then is logged, and by entries
\* without applied rules and modifications; once the handler of
\* toggleGlobalPause(false) has returned the native rules installed are
\* those the enabled rules convert to
C17_AsStated ==
    /\ Paused => dynamicRules = {}
    /\ SeenPaused =>
          /\ last.installed = {}
          /\ Len(logs) > Len(last.before)
          /\ \A i \in (Len(last.before) + 1)..Len(logs) :
                logs[i].appliedRules = <<>> /\ logs[i].modifications = <<>>
    /\ Resumed => dynamicRules \in Installed(activeRules)

----------------------------------------------------------------------------
(* sortByPriority: rules of equal priority                                  *)

\* the lists that hold the elements of s, each as often as s does
Rearrangements(s) ==
    {[i \in 1..Len(s) |-> s[f[i]]] :
        f \in {g \in [1..Len(s) -> 1..Len(s)] : \A i, j \in 1..Len(s) : g[i] = g[j] => i = j}}

\* C21: whatever the order in which a set of rules is handed to
\* sortByPriority, the list returned is the same
C21_AsStated ==
    SortDone => \A t \in Rearrangements(produced[1].before) :
                    sortByPriority(t).value = produced[1].value

----------------------------------------------------------------------------
(* applyRule: what the trace records                                        *)

\* the header operations a modifyHeaders action carries, in requestHeaders
\* and in responseHeaders
HeaderOpsCarried(action) ==
    (IF action.requestHeaders = <<>> THEN <<>> ELSE action.requestHeaders[1])
    \o (IF action.responseHeaders = <<>> THEN <<>> ELSE action.responseHeaders[1])

\* C22: the trace applyRule returns for a modifyBody rule, whatever its
\* contentType and modification and whether or not the exchange has a body,
\* and for a modifyHeaders rule that carries a header operation, holds at
\* least one entry
C22_AsStated ==
    ApplyDone =>
        /\ rule.action.type = "modifyBody" => Len(Trace) >= 1
        /\ (rule.action.type = "modifyHeaders" /\ HeaderOpsCarried(rule.action) # <<>>)
              => Len(Trace) >= 1

----------------------------------------------------------------------------
(* The service worker: the listener of onRuleMatchedDebug                   *)

\* activeRules.find(r => parseInt(r.id) === info.rule.ruleId): the position
\* of the rule found, 0 where there is none
FindMatched(rs, ruleId) ==
    LET hits == {i \in 1..Len(rs) : parseInt(IdText[rs[i].id]) = <<ruleId>>}
    IN  IF hits = {} THEN 0 ELSE CHOOSE i \in hits : \A j \in hits : i <= j

\* chrome reports that an installed dynamic rule has matched a request; which
\* requests a rule matches is chrome's to decide
RuleMatched(requests) ==
    /\ \E native \in dynamicRules, details \in requests :
          \E found \in {FindMatched(activeRules, native.id)} :
             \E after \in {IF found = 0
                           THEN [logs |-> logs, logIdCounter |-> logIdCounter]
                           ELSE logRequest(logs, logIdCounter, now,
                                           LogRequestInfo(details.url, details.method, NoHeaders, now),
                                           <<activeRules[found]>>)} :
                /\ Len(after.logs) <= MaxLogs
                /\ logs' = after.logs
                /\ logIdCounter' = after.logIdCounter
                /\ last' = [op |-> "ruleMatched", before |-> logs, details |-> details,
                            native |-> native, rules |-> activeRules]
                /\ logPersistTimer' = (logPersistTimer \/ found # 0)
    /\ UNCHANGED <<now, ret, engineVars, batchVars, storageVars, activeRules, currentConfig,
                   dynamicRules, listeners, tasks, reply, created, sent>>

----------------------------------------------------------------------------
(* Rules that fire: a worker that has run initialize() on a store holding a *)
(* header rule with a numeric id; a header rule is created by message, and  *)
(* chrome reports matches of the rules installed.                           *)

MatchedPayloads ==
    {[name |-> "b", enabled |-> TRUE, priority |-> 1, urlPattern |-> WildcardPattern(<<"*">>),
      action |-> [type |-> "modifyHeaders",
                  requestHeaders |-> <<<<[operation |-> "remove", header |-> <<"X">>, value |-> <<>>]>>>>,
                  responseHeaders |-> <<>>]]}
MatchedStore == StoreOf(<<PauseRules[1]>>)

InitMatched ==
    /\ EngineIdle
    /\ LoggerAt(StartTime)
    /\ BatchIdle
    /\ store = MatchedStore
    /\ defaults = DEFAULT_CONFIG
    /\ sret = [op |-> "none"]
    /\ activeRules = loadRules(MatchedStore, "ok")
    /\ currentConfig = TheDefaults
    /\ dynamicRules \in Installed(loadRules(MatchedStore, "ok"))
    /\ listeners = 0
    /\ tasks = <<>>
    /\ reply = [type |-> "none"]
    /\ created = 0
    /\ sent = 0
    /\ logPersistTimer = FALSE
NextMatched ==
    \/ CreateRuleStart(MatchedPayloads)
    \/ WorkerStep
    \/ RuleMatched(PauseRequests)
    \/ PersistTimerFires
SpecMatched == InitMatched /\ [][NextMatched]_vars

\* the native rule is one convertToDeclarativeRules produces for the rule r
ProducedFor(r, native) ==
    /\ r.enabled
    /\ \E random \in RandomIds :
          \/ r.action.type = "modifyHeaders" /\ native = convertHeaderRule(r, random)
          \/ r.action.type = "redirect" /\ native = convertRedirectRule(r, random)

\* C23: when chrome reports a match of the native rule produced for an
\* active rule, the listener appends a log entry whose appliedRules is the
\* id of that rule
C23_AsStated ==
    last.op = "ruleMatched" =>
        \A i \in 1..Len(last.rules) :
            ProducedFor(last.rules[i], last.native) =>
                /\ Len(logs) = Len(last.before) + 1
                /\ logs[Len(logs)].appliedRules = <<last.rules[i].id>>

----------------------------------------------------------------------------
(* Persistence of the log: the listeners log requests and set the timer of  *)
(* persistLogsDebounced; a timer that is set fires.                         *)

InitDebounce == InitPause
NextDebounce ==
    \/ RequestEvent(PauseRequests)
    \/ RuleMatched(PauseRequests)
    \/ PersistTimerFires
SpecDebounce == InitDebounce /\ [][NextDebounce]_vars /\ WF_vars(PersistTimerFires)

\* the k-th entry of the log is among the entries stored under the key logs
Written(k) ==
    /\ store.logs # <<>>
    /\ \E j \in 1..Len(store.logs[1]) : store.logs[1][j] = SerializeLogs(<<logs[k]>>)[1]

\* C24: every entry a listener has appended to the log is in storage at
\* some later time
C24_AsStated ==
    \A k \in 1..MaxLogs : (Len(logs) >= k) ~> (Len(logs) >= k /\ Written(k))

----------------------------------------------------------------------------
(* Redirection by the engine and by the native rule: one redirect rule is   *)
(* applied to an exchange by applyRule and converted by                     *)
(* convertToDeclarativeRules.                                               *)

RedirectRequests == {MkRequest(url, "GET", NoHeaders, <<>>) : url \in {UrlA, UrlAB}}
InitRedirect ==
    /\ rule \in RedirectRules
    /\ request \in RedirectRequests
    /\ modified = <<>>
    /\ evals = <<>>
    /\ ecall = "none"
    /\ LoggerIdle
    /\ StorageIdle
    /\ WorkerIdle
    /\ rules = <<rule>>
    /\ produced = <<>>
NextRedirect == ApplyRuleCall \/ ConvertCall
SpecRedirect == InitRedirect /\ [][NextRedirect]_vars

BothDone == modified # <<>> /\ produced # <<>>

\* C25: the url the native rule of an enabled redirect rule redirects to is
\* the url applyURLRedirection gives the exchange under that rule
C25_AsStated ==
    (BothDone /\ evaluateRule(rule, request).result) =>
        /\ Len(produced[1].value) = 1
        /\ produced[1].value[1].action.url = Outcome.url

----------------------------------------------------------------------------
(* Created rules under interleaving: the messages that create, update,      *)
(* toggle and import rules, none that deletes one.                          *)

InitLost == InitRules
NextLost ==
    \/ CreateRuleStart(RulePayloads)
    \/ UpdateRuleStart(RuleMessageIds, RuleUpdates)
    \/ ToggleRuleStart(RuleMessageIds, {FALSE})
    \/ ImportDataStart(RuleBundles)
    \/ \E i \in 1..Len(tasks) : ImportStep(i)
    \/ WorkerStep
SpecLost == InitLost /\ [][NextLost]_vars

IdsOf(rs) == {rs[i].id : i \in 1..Len(rs)}
CreateAnswered == reply.type = "createRule" /\ reply.success

\* C26: from the moment createRule has answered success, the rule it created
\* is in activeRules and among the stored rules, whatever other handlers do
\* in between
C26_AsStated ==
    CreateAnswered =>
        /\ reply.subject \in IdsOf(activeRules)
        /\ reply.subject \in IdsOf(loadRules(store, "ok"))

----------------------------------------------------------------------------
(* Rule messages that are answered success=false                            *)

RuleMessageTypes == {"createRule", "updateRule", "deleteRule", "toggleRule"}
SetOf(rs) == {rs[i] : i \in 1..Len(rs)}

\* C27: a createRule, updateRule, deleteRule or toggleRule message answered
\* success=false has left activeRules as it was, and while no handler is in
\* flight activeRules holds the rules that are stored
C27_AsStated ==
    /\ (reply.type \in RuleMessageTypes /\ ~reply.success) => ~reply.changed
    /\ tasks = <<>> => SetOf(activeRules) = SetOf(loadRules(store, "ok"))

----------------------------------------------------------------------------
(* logResponse: the entry of the request itself                             *)

\* the entries of the log before the call that were logged for this very
\* request and have no statusCode
OwnPending(entries, req) ==
    {i \in 1..Len(entries) :
        /\ entries[i].url = req.url
        /\ entries[i].method = req.method
        /\ entries[i].timestamp = req.timestamp
        /\ entries[i].statusCode = <<>>}

\* C28: where the log holds an entry without statusCode that has the url,
\* the method and the timestamp of the request, logResponse gives the
\* statusCode to such an entry; an entry that has a statusCode is left as
\* it is
C28_AsStated ==
    last.op = "logResponse" =>
        /\ OwnPending(last.before, last.request) # {} =>
              \E i \in OwnPending(last.before, last.request) :
                 logs[i].statusCode = <<last.response.statusCode>>
        /\ \A i \in 1..Len(last.before) :
              last.before[i].statusCode # <<>> => logs[i] = last.before[i]

----------------------------------------------------------------------------
(* importData: the rules stored before the import                           *)

ImportReturned == sret.op = "importData"

\* C29: after importData every rule stored before it is among the rules
\* loadRules returns, with the fields it had, and the number of stored rules
\* has grown by result.importedRules
C29_AsStated ==
    ImportReturned =>
        /\ SetOf(loadRules(sret.before, "ok")) \subseteq SetOf(loadRules(store, "ok"))
        /\ Len(loadRules(store, "ok")) = Len(loadRules(sret.before, "ok")) + sret.value.importedRules

----------------------------------------------------------------------------
(* Listeners added more than once: a worker that has run initialize() with  *)
(* enableHTTPS and a mockResponse rule, so that the webRequest listeners    *)
(* are added; rules are created, updated and deleted, and requests are made.*)

ListenerUpdates == {[priority |-> 2]}
InitListeners == InitPause
NextListeners ==
    \/ CreateRuleStart(RulePayloads)
    \/ UpdateRuleStart({"8"}, ListenerUpdates)
    \/ DeleteRuleStart({"7"})
    \/ WorkerStep
    \/ RequestEvent(PauseRequests)
    \/ PersistTimerFires
SpecListeners == InitListeners /\ [][NextListeners]_vars

\* C30: for one request the onBeforeRequest handling appends at most one
\* entry to the log, and the entry names at most one rule
C30_AsStated ==
    last.op = "request" =>
        /\ last.first - Len(last.before) <= 1
        /\ \A i \in (Len(last.before) + 1)..last.first : Len(logs[i].appliedRules) <= 1

====
